---- MODULE Spec2Model ----
(***************************************************************************)
(* Model of the enreachvoice client library: the classification methods of *)
(* ClassificationMixin (classifications.py) on top of Client.invoke_api,   *)
(* and the construction of a Client, invoke_api and get_transcript         *)
(* (restapi.py).                                                           *)
(*                                                                         *)
(* Python values are modelled as follows.                                  *)
(*   dict        a function whose DOMAIN is the set of keys                *)
(*   list        a sequence                                                *)
(*   None        the string None (Optional[str] arguments only)            *)
(*   str / list  a TagsPretty value is tagged, [str |-> s] or              *)
(*               [list |-> <<...>>], the two Python types it can have      *)
(* The upstream service is the environment: every HTTP response is drawn   *)
(* from a bounded set when the pending request is answered.                *)
(***************************************************************************)
EXTENDS Integers, Sequences, FiniteSets, TLC

VARIABLES
    pc,             \* position of the running call: idle, await_find, await_schema, done
    op,             \* the public method that was called
    args,           \* its arguments
    requests,       \* API requests issued by this call, in order
    responses,      \* HTTP responses received by this call, in order
    classification, \* local variable of get_call_classification_pretty
    result,         \* outcome of the call once pc = "done"
    session,        \* what the finished calls of a session did (observer)
    retries,        \* local variable of get_transcript
    sleeps,         \* the time.sleep calls of get_transcript, in order
    client,         \* the attributes of the Client under construction
    disk            \* the directories and files get_recording_file made

\* the state of the transcript poller
poller == <<retries, sleeps>>

vars == <<pc, op, args, requests, responses, classification, result, session,
          poller, client, disk>>

-----------------------------------------------------------------------------
(* Bounds of the model *)

\* tag identifiers range over 0..MaxTagId
MaxTagId == 2
\* a classification holds at most MaxSelLen tag selections
MaxSelLen == 3
\* a session is followed over MaxCalls successive calls
MaxCalls == 3
\* a group's MaxSelections is 1 or MultiSelections
MultiSelections == 2

-----------------------------------------------------------------------------
(* Python helpers *)

None == "None"

\* bool(x) of an Optional[str]
Truthy(x) == x # None /\ x # ""

EmptyDict == [k \in {} |-> None]

\* d.get(k, default)
Get(d, k, default) == IF k \in DOMAIN d THEN d[k] ELSE default

\* d[k] = v
Put(d, k, v) == (k :> v) @@ d

\* outcomes of a call
Return(v) == [kind |-> "return", value |-> v]
ReturnNone == [kind |-> "return_none"]
Raise(exc, message) == [kind |-> "raise", exc |-> exc, message |-> message]
RaiseApi(exc, message, status_code, response) ==
    [kind |-> "raise", exc |-> exc, message |-> message,
     status_code |-> status_code, response |-> response]

IsRaise(o) == o.kind = "raise"

-----------------------------------------------------------------------------
(* Client.invoke_api: the mapping of an HTTP response to an outcome *)

Http(status_code, body) ==
    [kind |-> "http", status_code |-> status_code, json |-> TRUE, body |-> body]
HttpText(status_code, text) ==
    [kind |-> "http", status_code |-> status_code, json |-> FALSE, text |-> text]
NetworkError == [kind |-> "network_error"]

\* requests.Response.ok
ResponseOk(status_code) == status_code < 400

\* mutant: status 429 has no branch of its own
invoke_api_rate_limit_unmapped(path, method, resp) ==
    IF method \notin {"GET", "POST", "PUT", "DELETE"}
    THEN Raise("ValueError", "Invalid method")
    ELSE IF resp.kind = "network_error"
    THEN Raise("EnreachAPIException", "Network error")
    ELSE IF ~resp.json
    THEN RaiseApi("EnreachAPIException", "API returned invalid JSON",
                  resp.status_code, resp.text)
    ELSE IF resp.status_code = 401
    THEN RaiseApi("AuthenticationException", "Authentication failed",
                  resp.status_code, resp.body)
    ELSE IF resp.status_code = 404
    THEN RaiseApi("EnreachAPIException", "Resource not found",
                  resp.status_code, resp.body)
    ELSE IF ~ResponseOk(resp.status_code)
    THEN RaiseApi("EnreachAPIException", "API request failed",
                  resp.status_code, resp.body)
    ELSE Return(resp.body)

\* mutant: the status is examined before the body is parsed
invoke_api_status_first(path, method, resp) ==
    IF method \notin {"GET", "POST", "PUT", "DELETE"}
    THEN Raise("ValueError", "Invalid method")
    ELSE IF resp.kind = "network_error"
    THEN Raise("EnreachAPIException", "Network error")
    ELSE LET body == IF resp.json THEN resp.body ELSE resp.text
         IN  IF resp.status_code = 401
             THEN RaiseApi("AuthenticationException", "Authentication failed",
                           resp.status_code, body)
             ELSE IF resp.status_code = 404
             THEN RaiseApi("EnreachAPIException", "Resource not found",
                           resp.status_code, body)
             ELSE IF resp.status_code = 429
             THEN RaiseApi("RateLimitException", "API rate limit exceeded",
                           resp.status_code, body)
             ELSE IF ~ResponseOk(resp.status_code)
             THEN RaiseApi("EnreachAPIException", "API request failed",
                           resp.status_code, body)
             ELSE IF ~resp.json
             THEN RaiseApi("EnreachAPIException", "API returned invalid JSON",
                           resp.status_code, resp.text)
             ELSE Return(resp.body)

\* lines 148-208: the outcome of a request that was sent and answered by resp
invoke_api(path, method, resp) ==
    IF method \notin {"GET", "POST", "PUT", "DELETE"}
    THEN Raise("ValueError", "Invalid method")
    ELSE IF resp.kind = "network_error"
    THEN Raise("EnreachAPIException", "Network error")
    ELSE IF ~resp.json
    THEN RaiseApi("EnreachAPIException", "API returned invalid JSON",
                  resp.status_code, resp.text)
    ELSE IF resp.status_code = 401
    THEN RaiseApi("AuthenticationException", "Authentication failed",
                  resp.status_code, resp.body)
    ELSE IF resp.status_code = 404
    THEN RaiseApi("EnreachAPIException", "Resource not found",
                  resp.status_code, resp.body)
    ELSE IF resp.status_code = 429
    THEN RaiseApi("RateLimitException", "API rate limit exceeded",
                  resp.status_code, resp.body)
    ELSE IF ~ResponseOk(resp.status_code)
    THEN RaiseApi("EnreachAPIException", "API request failed",
                  resp.status_code, resp.body)
    ELSE Return(resp.body)

\* lines 142-144: the path with its leading slash; the paths without one
Unslashed == {"users/me"}
WithSlash(path) == IF path \in Unslashed THEN "/" \o path ELSE path

\* a method that reached its invoke_api call: the request it sends
Request(method, path, params) ==
    [kind |-> "request",
     request |-> [method |-> method, path |-> path, params |-> params]]

\* a method that reached its invoke_api call with a JSON payload
RequestWithPayload(method, path, payload) ==
    [kind |-> "request",
     request |-> [method |-> method, path |-> path, payload |-> payload]]

\* lines 133-146: invoke_api called directly, up to the request it sends
invoke_api_begin(path, method, params) ==
    IF method \notin {"GET", "POST", "PUT", "DELETE"}
    THEN Raise("ValueError", "Invalid method")
    ELSE IF path = None THEN Raise("ValueError", "Path must be provided")
    ELSE Request(method, WithSlash(path), params)

-----------------------------------------------------------------------------
(* Client.__init__, get_apiurl and authenticate_with_password *)

\* response.text; the text of a JSON body is modelled by the parsed body
TextOf(resp) == IF resp.json THEN resp.body ELSE resp.text

\* get_apiurl, lines 80-82: the discovery request (requests.get, no invoke_api)
get_apiurl_begin(username) ==
    Request("GET", "https://discover.enreachvoice.com/api/user?user=" \o username,
            None)

\* lines 92-94: the endpoint without its trailing slash
Slashed == {"https://api.test.com/"}
StripSlash(apiEndpoint) ==
    IF apiEndpoint \in Slashed THEN "https://api.test.com" ELSE apiEndpoint

\* get_apiurl, lines 83-108
get_apiurl_end(resp) ==
    IF resp.kind = "network_error"
    THEN Raise("EnreachAPIException", "Network error during discovery")
    ELSE IF resp.status_code # 200
    THEN RaiseApi("EnreachAPIException", "Discovery failed", resp.status_code,
                  TextOf(resp))
    ELSE IF ~resp.json \/ Len(resp.body) = 0
                       \/ "apiEndpoint" \notin DOMAIN resp.body[1]
    THEN Raise("EnreachAPIException", "Invalid discovery response")
    ELSE Return(StripSlash(resp.body[1].apiEndpoint))

\* authenticate_with_password, lines 225-231 (requests.post, no invoke_api)
authenticate_with_password_begin(apiEndpoint, username, password) ==
    RequestWithPayload("POST", apiEndpoint \o "/authuser/" \o username,
                       [UserName |-> username, Password |-> password])

\* authenticate_with_password, lines 232-254
authenticate_with_password_end(resp) ==
    IF resp.kind = "network_error"
    THEN Raise("AuthenticationException", "Network error during authentication")
    ELSE IF resp.status_code # 200
    THEN RaiseApi("AuthenticationException", "Authentication failed",
                  resp.status_code, TextOf(resp))
    ELSE IF ~resp.json \/ "SecretKey" \notin DOMAIN resp.body
    THEN Raise("AuthenticationException", "Invalid authentication response")
    ELSE Return(resp.body.SecretKey)

\* mutant: missing credentials are let through to users/me
credentials_missing_tolerated(secretkey, password) ==
    IF secretkey # None \/ password = None THEN [kind |-> "secretkey"]
    ELSE [kind |-> "password"]

\* mutant: a password is used whenever there is one
credentials_password_first(secretkey, password) ==
    IF password # None THEN [kind |-> "password"]
    ELSE IF secretkey # None THEN [kind |-> "secretkey"]
    ELSE Raise("ValueError", "Either secretkey or password must be provided")

\* __init__, lines 56-64: where the secret key comes from
credentials(secretkey, password) ==
    IF secretkey # None THEN [kind |-> "secretkey"]
    ELSE IF password = None
    THEN Raise("ValueError", "Either secretkey or password must be provided")
    ELSE [kind |-> "password"]

\* __init__, line 66: the users/me request
users_me == invoke_api_begin("users/me", "GET", None)

\* __init__, lines 66-67, once invoke_api has answered
init_end(invoked) ==
    IF IsRaise(invoked) THEN invoked
    ELSE IF "Id" \notin DOMAIN invoked.value THEN Raise("KeyError", "Id")
    ELSE Return(invoked.value.Id)

-----------------------------------------------------------------------------
(* ClassificationMixin.get_classification_schema *)

\* mutant: the schema id is not checked
get_classification_schema_begin_unchecked(schema_id, include_children) ==
    Request("GET", "/classification/schemas/" \o schema_id,
            [IncludeChildren |-> include_children])

get_classification_schema_begin(schema_id, include_children) ==
    IF ~Truthy(schema_id)
    THEN Raise("ValueError", "schema_id is required")
    ELSE Request("GET", "/classification/schemas/" \o schema_id,
                 [IncludeChildren |-> include_children])

get_classification_schema_end(invoked) == invoked

-----------------------------------------------------------------------------
(* ClassificationMixin.find_classifications *)

\* mutant: the callback item id is sent only when no call id is given
find_classifications_params_elif(call_id, callback_list_item_id) ==
    IF Truthy(call_id) THEN Put(EmptyDict, "CallId", call_id)
    ELSE IF Truthy(callback_list_item_id)
    THEN Put(EmptyDict, "CallbackListItemId", callback_list_item_id)
    ELSE EmptyDict

find_classifications_params(call_id, callback_list_item_id) ==
    LET p1 == IF Truthy(call_id) THEN Put(EmptyDict, "CallId", call_id)
              ELSE EmptyDict
    IN  IF Truthy(callback_list_item_id)
        THEN Put(p1, "CallbackListItemId", callback_list_item_id)
        ELSE p1

find_classifications_begin(call_id, callback_list_item_id) ==
    IF ~Truthy(call_id) /\ ~Truthy(callback_list_item_id)
    THEN Raise("ValueError",
               "Either call_id or callback_list_item_id must be provided")
    ELSE Request("GET", "/classification/instance/",
                 find_classifications_params(call_id, callback_list_item_id))

find_classifications_end(invoked) == invoked

-----------------------------------------------------------------------------
(* ClassificationMixin.get_call_classification *)

get_call_classification_begin(call_id) ==
    IF ~Truthy(call_id)
    THEN Raise("ValueError", "call_id is required")
    ELSE find_classifications_begin(call_id, None)

\* mutant: classifications[0] without the emptiness test
first_or_none_unchecked(classifications) ==
    IF classifications # <<>> THEN Return(Head(classifications))
    ELSE Raise("IndexError", "list index out of range")

\* mutant: the last match is taken
first_or_none_last(classifications) ==
    IF classifications # <<>> THEN Return(classifications[Len(classifications)])
    ELSE ReturnNone

\* classifications[0] if classifications else None
first_or_none(classifications) ==
    IF classifications # <<>> THEN Return(Head(classifications)) ELSE ReturnNone

get_call_classification_end(invoked) ==
    LET classifications == find_classifications_end(invoked)
    IN  IF IsRaise(classifications) THEN classifications
        ELSE first_or_none(classifications.value)

-----------------------------------------------------------------------------
(* ClassificationMixin.get_call_classification_pretty *)

get_call_classification_pretty_begin(call_id) ==
    IF ~Truthy(call_id)
    THEN Raise("ValueError", "call_id is required")
    ELSE get_call_classification_begin(call_id)

\* mutant: the identifier 0 counts as an identifier
IdTruthy_zero_counts(d, key) == key \in DOMAIN d

\* "if tag_id:" on the value of d.get(key): a missing identifier and the
\* identifier 0 are both falsy
IdTruthy(d, key) == key \in DOMAIN d /\ d[key] # 0

\* the loop over group.get('Tags', []): an entry per tag that has an identifier
RECURSIVE tag_map_add_tags(_, _, _)
tag_map_add_tags(tag_map, group_name, tags) ==
    IF tags = <<>> THEN tag_map
    ELSE LET tag == Head(tags)
             added == IF IdTruthy(tag, "Id")
                      THEN Put(tag_map, tag.Id,
                               [name |-> Get(tag, "Name", "Unknown Tag"),
                                group |-> group_name])
                      ELSE tag_map
         IN  tag_map_add_tags(added, group_name, Tail(tags))

\* the loop over schema.get('Groups', []): tag_map and group_max_selections
RECURSIVE build_lookup(_, _)
build_lookup(lookup, groups) ==
    IF groups = <<>> THEN lookup
    ELSE LET group == Head(groups)
             group_name == Get(group, "Name", "Unknown Group")
             max_selections == Get(group, "MaxSelections", 1)
         IN  build_lookup(
                 [tag_map |-> tag_map_add_tags(lookup.tag_map, group_name,
                                               Get(group, "Tags", <<>>)),
                  group_max_selections |->
                      Put(lookup.group_max_selections, group_name, max_selections)],
                 Tail(groups))

schema_lookup(schema) ==
    build_lookup([tag_map |-> EmptyDict, group_max_selections |-> EmptyDict],
                 Get(schema, "Groups", <<>>))

\* mutant: a group with MaxSelections = 1 is treated as a list group
is_multi_from_one(max_selections) == max_selections >= 1

\* "if max_selections > 1": the group allows multiple selections
is_multi(max_selections) == max_selections > 1

\* mutant: a name already in the list is not appended again
put_multi_unique(tags_pretty, group_name, tag_name) ==
    IF group_name \notin DOMAIN tags_pretty
    THEN [ok |-> TRUE,
          tags_pretty |-> Put(tags_pretty, group_name, [list |-> <<tag_name>>])]
    ELSE IF "list" \notin DOMAIN tags_pretty[group_name]
    THEN [ok |-> FALSE, tags_pretty |-> tags_pretty]
    ELSE IF \E i \in DOMAIN tags_pretty[group_name].list :
                tags_pretty[group_name].list[i] = tag_name
    THEN [ok |-> TRUE, tags_pretty |-> tags_pretty]
    ELSE [ok |-> TRUE,
          tags_pretty |->
              Put(tags_pretty, group_name,
                  [list |-> Append(tags_pretty[group_name].list, tag_name)])]

\* the multi-selection branch, lines 373-375; ok is FALSE when it raises
\* (list.append on a value that is a str)
put_multi(tags_pretty, group_name, tag_name) ==
    IF group_name \notin DOMAIN tags_pretty
    THEN [ok |-> TRUE,
          tags_pretty |-> Put(tags_pretty, group_name, [list |-> <<tag_name>>])]
    ELSE IF "list" \in DOMAIN tags_pretty[group_name]
    THEN [ok |-> TRUE,
          tags_pretty |->
              Put(tags_pretty, group_name,
                  [list |-> Append(tags_pretty[group_name].list, tag_name)])]
    ELSE [ok |-> FALSE, tags_pretty |-> tags_pretty]

\* mutant: the first selection of a single-selection group is kept
put_single_first_wins(tags_pretty, group_name, tag_name) ==
    IF group_name \in DOMAIN tags_pretty
    THEN [ok |-> TRUE, tags_pretty |-> tags_pretty]
    ELSE [ok |-> TRUE,
          tags_pretty |-> Put(tags_pretty, group_name, [str |-> tag_name])]

\* the single-selection branch, line 378
put_single(tags_pretty, group_name, tag_name) ==
    [ok |-> TRUE, tags_pretty |-> Put(tags_pretty, group_name, [str |-> tag_name])]

\* lines 364-378: the resolved tag is entered under its group
place_tag(tags_pretty, tag_info, lookup) ==
    LET group_name == tag_info.group
        tag_name == tag_info.name
        max_selections == Get(lookup.group_max_selections, group_name, 1)
    IN  IF is_multi(max_selections)
        THEN put_multi(tags_pretty, group_name, tag_name)
        ELSE put_single(tags_pretty, group_name, tag_name)

\* mutant: an unresolved identifier is entered under a placeholder group
select_tag_placeholder(tags_pretty, selection, lookup) ==
    IF IdTruthy(selection, "TagId")
    THEN place_tag(tags_pretty,
                   Get(lookup.tag_map, selection.TagId,
                       [name |-> "Unknown Tag", group |-> "Unknown Group"]),
                   lookup)
    ELSE [ok |-> TRUE, tags_pretty |-> tags_pretty]

\* one iteration of the loop over the tag selections, lines 362-378
select_tag(tags_pretty, selection, lookup) ==
    IF IdTruthy(selection, "TagId") /\ selection.TagId \in DOMAIN lookup.tag_map
    THEN place_tag(tags_pretty, lookup.tag_map[selection.TagId], lookup)
    ELSE [ok |-> TRUE, tags_pretty |-> tags_pretty]

\* the loop over classification.get('TagSelections', [])
RECURSIVE select_tags(_, _, _)
select_tags(tags_pretty, selections, lookup) ==
    IF selections = <<>> THEN [ok |-> TRUE, tags_pretty |-> tags_pretty]
    ELSE LET step == select_tag(tags_pretty, Head(selections), lookup)
         IN  IF step.ok THEN select_tags(step.tags_pretty, Tail(selections), lookup)
             ELSE step

\* mutant: the selections that did not resolve are removed from the record
decorate_pruned(c, schema) ==
    LET lookup == schema_lookup(schema)
        built == select_tags(EmptyDict, Get(c, "TagSelections", <<>>), lookup)
        kept == SelectSeq(Get(c, "TagSelections", <<>>),
                          LAMBDA sel : /\ IdTruthy(sel, "TagId")
                                       /\ sel.TagId \in DOMAIN lookup.tag_map)
    IN  IF built.ok
        THEN Return(Put(Put(c, "TagSelections", kept), "TagsPretty",
                        built.tags_pretty))
        ELSE Raise("AttributeError", "'str' object has no attribute 'append'")

\* lines 341-383: the classification with its TagsPretty field set
decorate(c, schema) ==
    LET built == select_tags(EmptyDict, Get(c, "TagSelections", <<>>),
                             schema_lookup(schema))
    IN  IF built.ok THEN Return(Put(c, "TagsPretty", built.tags_pretty))
        ELSE Raise("AttributeError", "'str' object has no attribute 'append'")

\* mutant: a classification without schema id gets an empty TagsPretty
get_call_classification_pretty_found_empty(invoked) ==
    LET found == get_call_classification_end(invoked)
    IN  IF found.kind # "return" THEN found
        ELSE LET schema_id == Get(found.value, "TagSchemaId", None)
             IN  IF ~Truthy(schema_id)
                 THEN Return(Put(found.value, "TagsPretty", EmptyDict))
                 ELSE get_classification_schema_begin(schema_id, TRUE)

\* mutant: the schema of an earlier call of the session is used again
get_call_classification_pretty_found_cached(invoked) ==
    LET found == get_call_classification_end(invoked)
    IN  IF found.kind # "return" THEN found
        ELSE LET schema_id == Get(found.value, "TagSchemaId", None)
             IN  IF ~Truthy(schema_id) THEN found
                 ELSE IF Len(session.fetched) > 0
                 THEN LET cached == session.fetched[Len(session.fetched)]
                      IN  IF DOMAIN cached = {} THEN found
                          ELSE decorate(found.value, cached)
                 ELSE get_classification_schema_begin(schema_id, TRUE)

\* lines 328-337: from the answer to the find request to the schema request
get_call_classification_pretty_found(invoked) ==
    LET found == get_call_classification_end(invoked)
    IN  IF found.kind # "return" THEN found
        ELSE LET schema_id == Get(found.value, "TagSchemaId", None)
             IN  IF ~Truthy(schema_id) THEN found
                 ELSE get_classification_schema_begin(schema_id, TRUE)

\* mutant: a failed schema fetch yields the undecorated classification
get_call_classification_pretty_end_lenient(c, invoked) ==
    LET schema == get_classification_schema_end(invoked)
    IN  IF IsRaise(schema) THEN Return(c)
        ELSE IF DOMAIN schema.value = {} THEN Return(c)
        ELSE decorate(c, schema.value)

\* mutant: an empty schema decorates as well
get_call_classification_pretty_end_decorates_empty(c, invoked) ==
    LET schema == get_classification_schema_end(invoked)
    IN  IF IsRaise(schema) THEN schema
        ELSE decorate(c, schema.value)

\* lines 337-383: from the answer to the schema request to the result
get_call_classification_pretty_end(c, invoked) ==
    LET schema == get_classification_schema_end(invoked)
    IN  IF IsRaise(schema) THEN schema
        ELSE IF DOMAIN schema.value = {} THEN Return(c)
        ELSE decorate(c, schema.value)

-----------------------------------------------------------------------------
(* ClassificationMixin.create_classification *)

\* bool(x) of a list
NonEmpty(list) == Len(list) > 0

\* mutant: the schema id is checked before the call id
create_classification_check_schema_first(call_id, schema_id, tag_selections) ==
    IF ~Truthy(schema_id) THEN Raise("ValueError", "schema_id is required")
    ELSE IF ~Truthy(call_id) THEN Raise("ValueError", "call_id is required")
    ELSE IF ~NonEmpty(tag_selections)
    THEN Raise("ValueError", "tag_selections cannot be empty")
    ELSE [kind |-> "ok"]

\* lines 174-179: the three checks, in order
create_classification_check(call_id, schema_id, tag_selections) ==
    IF ~Truthy(call_id) THEN Raise("ValueError", "call_id is required")
    ELSE IF ~Truthy(schema_id) THEN Raise("ValueError", "schema_id is required")
    ELSE IF ~NonEmpty(tag_selections)
    THEN Raise("ValueError", "tag_selections cannot be empty")
    ELSE [kind |-> "ok"]

\* mutant: only the two call types are told apart from the list item
id_field_call_types_only(classified_type) ==
    IF classified_type \in {"DirectCall", "ServiceCall"} THEN "CallId"
    ELSE "CallListItemId"

\* lines 190-197: the payload key that receives call_id
id_field(classified_type) ==
    IF classified_type \in {"DirectCall", "ServiceCall"} THEN "CallId"
    ELSE IF classified_type = "CallListItem" THEN "CallListItemId"
    ELSE "CallId"

\* lines 181-197
create_classification_payload(call_id, schema_id, tag_selections, note, classified_type) ==
    LET payload == [TagSchemaId |-> schema_id,
                    TagSelections |-> tag_selections,
                    ClassifiedType |-> classified_type]
        noted == IF Truthy(note) THEN Put(payload, "Note", note) ELSE payload
    IN  Put(noted, id_field(classified_type), call_id)

create_classification_begin(call_id, schema_id, tag_selections, note, classified_type) ==
    LET checked == create_classification_check(call_id, schema_id, tag_selections)
    IN  IF IsRaise(checked) THEN checked
        ELSE RequestWithPayload("POST", "/classification/instance",
                 create_classification_payload(call_id, schema_id, tag_selections,
                                               note, classified_type))

create_classification_end(invoked) == invoked

-----------------------------------------------------------------------------
(* Client.get_usercalls and Client.get_inbound_queuecalls *)

\* a datetime is its wall-clock time in hours and its UTC offset in hours
HoursPerDay == 24
\* restapi.py line 286: (et - st).days > 31
max_days == 31

\* dt.astimezone(timezone.utc): the hour of the instant in UTC
utc(dt) == dt.local - dt.utcoffset

\* dt.astimezone(timezone.utc).strftime("%Y-%m-%d %H:%M:%S")
strftime_utc(dt) ==
    "day " \o ToString(utc(dt) \div HoursPerDay) \o " "
        \o ToString(utc(dt) % HoursPerDay) \o ":00:00"

\* (b - a).days of two aware datetimes: whole days, rounded down
days_between(a, b) == (utc(b) - utc(a)) \div HoursPerDay

\* the filters hold both keys of a pair
has_pair(filterParameters, after, before) ==
    after \in DOMAIN filterParameters /\ before \in DOMAIN filterParameters

\* lines 281-287 and 289-295: both times of a pair are replaced by their UTC
\* text, then the range is tested
convert_pair(filterParameters, after, before) ==
    LET a == filterParameters[after]
        b == filterParameters[before]
        converted == Put(Put(filterParameters, after, strftime_utc(a)),
                         before, strftime_utc(b))
    IN  IF days_between(a, b) > max_days
        THEN Raise("ValueError", "Time range cannot be more than 31 days")
        ELSE [kind |-> "ok", params |-> converted]

MissingTimes ==
    Raise("ValueError",
          "Must have StartTime and EndTime or ModifiedAfter and ModifiedBefore")

\* lines 280-299
get_usercalls_filters(filterParameters) ==
    IF has_pair(filterParameters, "StartTime", "EndTime")
    THEN convert_pair(filterParameters, "StartTime", "EndTime")
    ELSE IF has_pair(filterParameters, "ModifiedAfter", "ModifiedBefore")
    THEN convert_pair(filterParameters, "ModifiedAfter", "ModifiedBefore")
    ELSE IF "CallId" \in DOMAIN filterParameters
    THEN [kind |-> "ok", params |-> filterParameters]
    ELSE MissingTimes

get_usercalls_begin(filterParameters) ==
    LET checked == get_usercalls_filters(filterParameters)
    IN  IF IsRaise(checked) THEN checked
        ELSE Request("GET", "/calls", checked.params)

get_usercalls_end(invoked) == invoked

\* mutant: a CallId is enough, as in get_usercalls
get_inbound_queuecalls_filters_call_id(filterParameters) ==
    IF has_pair(filterParameters, "StartTime", "EndTime")
    THEN convert_pair(filterParameters, "StartTime", "EndTime")
    ELSE IF has_pair(filterParameters, "ModifiedAfter", "ModifiedBefore")
    THEN convert_pair(filterParameters, "ModifiedAfter", "ModifiedBefore")
    ELSE IF "CallId" \in DOMAIN filterParameters
    THEN [kind |-> "ok", params |-> filterParameters]
    ELSE MissingTimes

\* lines 329-346
get_inbound_queuecalls_filters(filterParameters) ==
    IF has_pair(filterParameters, "StartTime", "EndTime")
    THEN convert_pair(filterParameters, "StartTime", "EndTime")
    ELSE IF has_pair(filterParameters, "ModifiedAfter", "ModifiedBefore")
    THEN convert_pair(filterParameters, "ModifiedAfter", "ModifiedBefore")
    ELSE MissingTimes

get_inbound_queuecalls_begin(filterParameters) ==
    LET checked == get_inbound_queuecalls_filters(filterParameters)
    IN  IF IsRaise(checked) THEN checked
        ELSE Request("GET", "/servicecall", checked.params)

get_inbound_queuecalls_end(invoked) == invoked

-----------------------------------------------------------------------------
(* Client.get_recording_file *)

\* lines 368-370: the metadata request (requests.get, no invoke_api)
get_recording_file_begin(recordingId) ==
    Request("GET", "/calls/recordings/" \o recordingId, None)

\* lines 370-382: the metadata request is answered; an exception of requests
\* or of the parsing is not caught
get_recording_file_metadata(resp) ==
    IF resp.kind = "network_error"
    THEN Raise("RequestException", "connection failed")
    ELSE IF resp.status_code # 200
    THEN RaiseApi("EnreachAPIException", "Failed to get recording metadata",
                  resp.status_code, TextOf(resp))
    ELSE IF ~resp.json THEN Raise("JSONDecodeError", "invalid JSON")
    ELSE IF "URL" \notin DOMAIN resp.body THEN Raise("KeyError", "URL")
    ELSE Request("GET", "/" \o resp.body.URL, None)

\* lines 382-385: the audio request is answered; its status is not looked at
get_recording_file_audio(resp) ==
    IF resp.kind = "network_error"
    THEN Raise("RequestException", "connection failed")
    ELSE [kind |-> "write", content |-> TextOf(resp)]

\* line 384: the file the audio is written to
mp3(path, recordingId) == path \o "/" \o recordingId \o ".mp3"

-----------------------------------------------------------------------------
(* Client.get_transcript *)

\* restapi.py line 410: max_retries = 10
max_retries == 10
\* restapi.py line 417: time.sleep(10)
sleep_seconds == 10

get_transcript_begin(transcriptId) ==
    Request("GET", "/calls/transcripts/" \o transcriptId, None)

StillPending(transcriptId) ==
    Raise("EnreachAPIException",
          "Transcript " \o transcriptId \o " still pending after "
              \o ToString(max_retries) \o " retries")

\* mutant: a pending transcript is awaited whatever wait_pending says
get_transcript_fetched_always_waits(transcriptId, wait_pending, tried, invoked) ==
    IF IsRaise(invoked) THEN invoked
    ELSE IF "TranscriptStatus" \notin DOMAIN invoked.value
    THEN Raise("KeyError", "TranscriptStatus")
    ELSE IF invoked.value.TranscriptStatus = "Pending"
    THEN IF tried >= max_retries THEN StillPending(transcriptId)
         ELSE [kind |-> "retry"]
    ELSE Return(invoked.value)

\* mutant: the record of the first fetch that succeeds is returned
get_transcript_fetched_never_waits(transcriptId, wait_pending, tried, invoked) ==
    IF IsRaise(invoked) THEN invoked
    ELSE IF "TranscriptStatus" \notin DOMAIN invoked.value
    THEN Raise("KeyError", "TranscriptStatus")
    ELSE Return(invoked.value)

\* mutant: the budget counts the fetches, the first one included
get_transcript_fetched_counts_first(transcriptId, wait_pending, tried, invoked) ==
    IF IsRaise(invoked) THEN invoked
    ELSE IF "TranscriptStatus" \notin DOMAIN invoked.value
    THEN Raise("KeyError", "TranscriptStatus")
    ELSE IF invoked.value.TranscriptStatus = "Pending" /\ wait_pending
    THEN IF tried + 1 >= max_retries THEN StillPending(transcriptId)
         ELSE [kind |-> "retry"]
    ELSE Return(invoked.value)

\* mutant: a fetch that fails inside the poll loop is tried again
get_transcript_fetched_retries_failures(transcriptId, wait_pending, tried, invoked) ==
    IF IsRaise(invoked)
    THEN IF wait_pending /\ tried >= 1 /\ tried < max_retries
         THEN [kind |-> "retry"]
         ELSE invoked
    ELSE IF "TranscriptStatus" \notin DOMAIN invoked.value
    THEN Raise("KeyError", "TranscriptStatus")
    ELSE IF invoked.value.TranscriptStatus = "Pending" /\ wait_pending
    THEN IF tried >= max_retries THEN StillPending(transcriptId)
         ELSE [kind |-> "retry"]
    ELSE Return(invoked.value)

\* mutant: the retry budget is never tested
get_transcript_fetched_unbounded(transcriptId, wait_pending, tried, invoked) ==
    IF IsRaise(invoked) THEN invoked
    ELSE IF "TranscriptStatus" \notin DOMAIN invoked.value
    THEN Raise("KeyError", "TranscriptStatus")
    ELSE IF invoked.value.TranscriptStatus = "Pending" /\ wait_pending
    THEN [kind |-> "retry"]
    ELSE Return(invoked.value)

\* lines 404-422: what follows a fetch that invoke_api answered, `tried`
\* retries having been made: the call raises, returns the record, or sleeps
\* and fetches again (wait_pending holds throughout the while loop)
get_transcript_fetched(transcriptId, wait_pending, tried, invoked) ==
    IF IsRaise(invoked) THEN invoked
    ELSE IF "TranscriptStatus" \notin DOMAIN invoked.value
    THEN Raise("KeyError", "TranscriptStatus")
    ELSE IF invoked.value.TranscriptStatus = "Pending" /\ wait_pending
    THEN IF tried >= max_retries THEN StillPending(transcriptId)
         ELSE [kind |-> "retry"]
    ELSE Return(invoked.value)

-----------------------------------------------------------------------------
(* Inputs: the arguments of a call and the answers of the upstream service *)

CallIds == {None, "", "c1"}
CallbackListItemIds == {None, "", "cb1"}
SchemaIds == {"", "s1"}

TagIds == 0 .. MaxTagId
GroupNames == {"G1", "G2"}

\* a selection holds a TagId, or only the read-only fields
Selections == {[TagId |-> i] : i \in TagIds} \cup {[TagName |-> "x"]}
SelectionLists == UNION {[1 .. n -> Selections] : n \in 0 .. MaxSelLen}

\* the classification instances the find request can return: with a schema
\* id, with an empty one, with none; with or without TagSelections
ClassificationBase == [Id |-> "k1", CallId |-> "c1", Note |-> "note"]
WithSchemaId == {Put(ClassificationBase, "TagSchemaId", sid) : sid \in SchemaIds}
                    \cup {ClassificationBase}
Classifications ==
    {Put(c, "TagSelections", sels) : c \in WithSchemaId, sels \in SelectionLists}
        \cup WithSchemaId

OtherClassification ==
    [Id |-> "k2", CallId |-> "c1", Note |-> "other", TagSchemaId |-> "s2",
     TagSelections |-> <<[TagId |-> 1]>>]

\* the arguments of create_classification: the classified types of the API
\* (its member None is the string, not Python's None) and one unknown to it
ClassifiedTypes ==
    {"Undefined", "None", "DirectCall", "ServiceCall", "Email", "CallListItem",
     "Chat"}
Notes == {None, "", "note"}
TagSelectionLists ==
    {<<>>, <<[TagId |-> 1]>>, <<[TagId |-> MaxTagId], [TagId |-> 1]>>}
\* the instance the service answers a creation with
Created == {Put(ClassificationBase, "TagSchemaId", "s1")}

\* the lists the find request can return: empty, one instance, or two
FoundLists ==
    {<<>>} \cup {<<c>> : c \in Classifications}
           \cup {<<c, OtherClassification>> : c \in Classifications}

\* a schema: every tag id belongs to G1, to G2 or to no group; the display
\* name of tag i is "T<i>"; G2 also lists a tag that carries no identifier.
\* The schemas follow the data model of the API: a group is identified by its
\* name and a tag identifier belongs to one tag of one group.  The empty
\* answer {} and a schema without a Groups key are answers too.
TagOf(i) == [Id |-> i, Name |-> "T" \o ToString(i)]

RECURSIVE TagsOfGroup(_, _, _)
TagsOfGroup(owner, group_name, i) ==
    IF i > MaxTagId THEN <<>>
    ELSE (IF owner[i] = group_name THEN <<TagOf(i)>> ELSE <<>>)
             \o TagsOfGroup(owner, group_name, i + 1)

SchemaOf(owner, max1, max2) ==
    [Id |-> "s1", Name |-> "Schema",
     Groups |-> << [Name |-> "G1", MaxSelections |-> max1,
                    Tags |-> TagsOfGroup(owner, "G1", 0)],
                   [Name |-> "G2", MaxSelections |-> max2,
                    Tags |-> <<[Name |-> "NoId"]>> \o TagsOfGroup(owner, "G2", 0)] >>]

Schemas ==
    {SchemaOf(owner, max1, max2) :
        owner \in [TagIds -> GroupNames \cup {"none"}],
        max1 \in {1, MultiSelections}, max2 \in {1, MultiSelections}}
    \cup {EmptyDict, [Id |-> "s1", Name |-> "Schema"]}

ErrorBody == [Message |-> "error"]

\* the HTTP responses of the upstream service to a request whose successful
\* answers are `bodies`
HttpResponses(bodies) ==
    {Http(200, b) : b \in bodies}
        \cup {Http(sc, ErrorBody) : sc \in {401, 404, 429, 500}}
        \cup {HttpText(200, "<html>"), HttpText(500, "<html>"), NetworkError}

-----------------------------------------------------------------------------
(* The state machine: one call at a time, each suspended at its API requests *)

NoResult == [kind |-> "none"]

\* nothing was written yet
NoDisk == [dirs |-> {}, files |-> EmptyDict]

\* a session before its first call: calls counts the finished calls that
\* passed validation, found those that found a classification with a schema
\* id; sent holds the requests of the finished calls and fetched the schemas
\* they received, both in order
NoSession == [calls |-> 0, found |-> 0, sent |-> <<>>, fetched |-> <<>>]

Init ==
    /\ client = EmptyDict
    /\ disk = NoDisk
    /\ session = NoSession
    /\ retries = 0
    /\ sleeps = <<>>
    /\ pc = "idle"
    /\ op = "none"
    /\ args = EmptyDict
    /\ requests = <<>>
    /\ responses = <<>>
    /\ classification = EmptyDict
    /\ result = NoResult

\* a method is entered: it raises at once or issues its first request
Enter(method, arguments, begun, await) ==
    /\ op' = method
    /\ args' = arguments
    /\ responses' = <<>>
    /\ classification' = EmptyDict
    /\ UNCHANGED <<session, poller, client, disk>>
    /\ IF begun.kind = "request"
       THEN /\ requests' = <<begun.request>>
            /\ pc' = await
            /\ result' = NoResult
       ELSE /\ requests' = <<>>
            /\ pc' = "done"
            /\ result' = begun

\* mutant: the stored secret key is dropped when the service rejects it
Leave_drops_secretkey(resp, outcome) ==
    /\ responses' = Append(responses, resp)
    /\ pc' = "done"
    /\ result' = outcome
    /\ client' = IF IsRaise(outcome) /\ outcome.exc = "AuthenticationException"
                        /\ "secretkey" \in DOMAIN client
                  THEN [client EXCEPT !.secretkey = None]
                  ELSE client
    /\ UNCHANGED <<op, args, requests, classification, session, poller, disk>>

\* the pending request is answered and the method returns or raises
Leave(resp, outcome) ==
    /\ responses' = Append(responses, resp)
    /\ pc' = "done"
    /\ result' = outcome
    /\ UNCHANGED <<op, args, requests, classification, session, poller, client,
                   disk>>

\* a request made without invoke_api is answered and the exception that
\* follows leaves the method
Abort(resp, raised) ==
    /\ responses' = Append(responses, resp)
    /\ pc' = "done"
    /\ result' = raised
    /\ UNCHANGED <<op, args, requests, client, disk>>

Pending == requests[Len(requests)]
Invoked(resp) == invoke_api(Pending.path, Pending.method, resp)

call_find_classifications ==
    /\ pc = "idle"
    /\ \E call_id \in CallIds, callback_list_item_id \in CallbackListItemIds :
        Enter("find_classifications",
              [call_id |-> call_id, callback_list_item_id |-> callback_list_item_id],
              find_classifications_begin(call_id, callback_list_item_id),
              "await_find")

call_get_call_classification ==
    /\ pc = "idle"
    /\ \E call_id \in CallIds :
        Enter("get_call_classification", [call_id |-> call_id],
              get_call_classification_begin(call_id), "await_find")

call_get_call_classification_pretty ==
    /\ pc = "idle"
    /\ \E call_id \in CallIds :
        Enter("get_call_classification_pretty", [call_id |-> call_id],
              get_call_classification_pretty_begin(call_id), "await_find")

call_get_classification_schema ==
    /\ pc = "idle"
    /\ \E schema_id \in SchemaIds, include_children \in BOOLEAN :
        Enter("get_classification_schema",
              [schema_id |-> schema_id, include_children |-> include_children],
              get_classification_schema_begin(schema_id, include_children),
              "await_schema")

call_create_classification ==
    /\ pc = "idle"
    /\ \E call_id \in CallIds, schema_id \in SchemaIds \cup {None},
          tag_selections \in TagSelectionLists, note \in Notes,
          classified_type \in ClassifiedTypes :
        Enter("create_classification",
              [call_id |-> call_id, schema_id |-> schema_id,
               tag_selections |-> tag_selections, note |-> note,
               classified_type |-> classified_type],
              create_classification_begin(call_id, schema_id, tag_selections,
                                          note, classified_type),
              "await_create")

return_create_classification ==
    /\ pc = "await_create"
    /\ op = "create_classification"
    /\ \E resp \in HttpResponses(Created) :
           Leave(resp, create_classification_end(Invoked(resp)))

return_find_classifications ==
    /\ pc = "await_find"
    /\ op = "find_classifications"
    /\ \E resp \in HttpResponses(FoundLists) :
           Leave(resp, find_classifications_end(Invoked(resp)))

return_get_call_classification ==
    /\ pc = "await_find"
    /\ op = "get_call_classification"
    /\ \E resp \in HttpResponses(FoundLists) :
           Leave(resp, get_call_classification_end(Invoked(resp)))

\* get_call_classification_pretty, lines 328-337: the find request is answered
\* and the call ends or sends the schema request
Found(resp) ==
    LET next == get_call_classification_pretty_found(Invoked(resp))
        found == get_call_classification_end(Invoked(resp))
    IN  IF next.kind = "request"
        THEN /\ responses' = Append(responses, resp)
             /\ requests' = Append(requests, next.request)
             /\ classification' = found.value
             /\ pc' = "await_schema"
             /\ UNCHANGED <<op, args, result, session, poller, client, disk>>
        ELSE Leave(resp, next)

found_get_call_classification_pretty ==
    /\ pc = "await_find"
    /\ op = "get_call_classification_pretty"
    /\ \E resp \in HttpResponses(FoundLists) : Found(resp)

\* get_call_classification_pretty, lines 337-383
return_get_call_classification_pretty ==
    /\ pc = "await_schema"
    /\ op = "get_call_classification_pretty"
    /\ \E resp \in HttpResponses(Schemas) :
           Leave(resp, get_call_classification_pretty_end(classification,
                                                          Invoked(resp)))

return_get_classification_schema ==
    /\ pc = "await_schema"
    /\ op = "get_classification_schema"
    /\ \E resp \in HttpResponses(Schemas) :
           Leave(resp, get_classification_schema_end(Invoked(resp)))

\* the outcome is handed to the caller; the client keeps nothing of the call
finish ==
    /\ pc = "done"
    /\ pc' = "idle"
    /\ op' = "none"
    /\ args' = EmptyDict
    /\ requests' = <<>>
    /\ responses' = <<>>
    /\ classification' = EmptyDict
    /\ result' = NoResult
    /\ retries' = 0
    /\ sleeps' = <<>>
    /\ client' = EmptyDict
    /\ disk' = NoDisk
    /\ UNCHANGED session

Next ==
    \/ call_find_classifications
    \/ call_get_call_classification
    \/ call_get_call_classification_pretty
    \/ call_get_classification_schema
    \/ call_create_classification
    \/ return_create_classification
    \/ return_find_classifications
    \/ return_get_call_classification
    \/ found_get_call_classification_pretty
    \/ return_get_call_classification_pretty
    \/ return_get_classification_schema
    \/ finish

Spec == Init /\ [][Next]_vars

-----------------------------------------------------------------------------
(* A session: successive get_call_classification_pretty calls on one client *)

\* the answers of the upstream service during a session: the classification
\* of call c1 keeps its schema id while the schema behind it changes
SessionClassifications ==
    {Put(Put(ClassificationBase, "TagSchemaId", "s1"), "TagSelections", sels) :
        sels \in {<<[TagId |-> 1]>>, <<[TagId |-> 1], [TagId |-> 2]>>}}
        \cup {ClassificationBase}
SessionFoundLists == {<<>>} \cup {<<c>> : c \in SessionClassifications}
SessionSchemas ==
    {SchemaOf([i \in TagIds |-> "G1"], 1, 1),
     SchemaOf([i \in TagIds |-> "G2"], 1, MultiSelections),
     EmptyDict}

found_in_session ==
    /\ pc = "await_find"
    /\ op = "get_call_classification_pretty"
    /\ \E resp \in HttpResponses(SessionFoundLists) : Found(resp)

return_in_session ==
    /\ pc = "await_schema"
    /\ op = "get_call_classification_pretty"
    /\ \E resp \in HttpResponses(SessionSchemas) :
           Leave(resp, get_call_classification_pretty_end(classification,
                                                          Invoked(resp)))

\* the find request of the running call found a classification with a schema id
FoundWithSchemaId ==
    /\ Len(responses) >= 1
    /\ get_call_classification_end(
           invoke_api(requests[1].path, requests[1].method, responses[1])).kind
               = "return"
    /\ Truthy(Get(Head(responses[1].body), "TagSchemaId", None))

\* the call has ended and the next one may start: the session remembers what
\* the call did, the client nothing
next_call ==
    /\ pc = "done"
    /\ op = "get_call_classification_pretty"
    /\ session.calls < MaxCalls
    /\ session' =
           [calls |-> session.calls + (IF Truthy(args.call_id) THEN 1 ELSE 0),
            found |-> session.found + (IF FoundWithSchemaId THEN 1 ELSE 0),
            sent |-> session.sent \o requests,
            fetched |-> session.fetched \o
                (IF Len(responses) = 2 /\ result.kind = "return"
                 THEN <<responses[2].body>> ELSE <<>>)]
    /\ pc' = "idle"
    /\ op' = "none"
    /\ args' = EmptyDict
    /\ requests' = <<>>
    /\ responses' = <<>>
    /\ classification' = EmptyDict
    /\ result' = NoResult
    /\ UNCHANGED <<poller, client, disk>>

NextSession ==
    \/ call_get_call_classification_pretty
    \/ found_in_session
    \/ return_in_session
    \/ next_call

SpecSession == Init /\ [][NextSession]_vars

-----------------------------------------------------------------------------
(* Client.invoke_api called directly *)

Methods == {"GET", "POST", "PUT", "DELETE", "PATCH"}
Paths == {None, "users/me", "/calls"}
StatusCodes == {200, 201, 302, 400, 401, 403, 404, 429, 500, 503}
JsonBodies == {[Id |-> "u1"], ErrorBody}

\* the answers to a request: any status with a JSON body or with a body that
\* is not JSON, or no answer at all
AnyResponses ==
    {Http(sc, body) : sc \in StatusCodes, body \in JsonBodies}
        \cup {HttpText(sc, "<html>") : sc \in StatusCodes}
        \cup {NetworkError}

call_invoke_api ==
    /\ pc = "idle"
    /\ \E path \in Paths, method \in Methods :
        Enter("invoke_api", [path |-> path, method |-> method],
              invoke_api_begin(path, method, None), "await_invoke")

return_invoke_api ==
    /\ pc = "await_invoke"
    /\ op = "invoke_api"
    /\ \E resp \in AnyResponses : Leave(resp, Invoked(resp))

NextInvoke ==
    \/ call_invoke_api
    \/ return_invoke_api
    \/ finish

SpecInvoke == Init /\ [][NextInvoke]_vars

-----------------------------------------------------------------------------
(* The call queries: Client.get_usercalls and Client.get_inbound_queuecalls *)

\* the beginning of a range, in two time zones, and its end: before the
\* beginning, a day later, and around the limit of max_days days
Afters == {[local |-> 0, utcoffset |-> 0], [local |-> 3, utcoffset |-> 2]}
Befores ==
    {[local |-> h, utcoffset |-> 0] :
        h \in {0 - 1, HoursPerDay,
               max_days * HoursPerDay, max_days * HoursPerDay + 1,
               (max_days + 1) * HoursPerDay, (max_days + 1) * HoursPerDay + 1}}

\* a keyword argument that is given, with one of the values, or not given
Optional(key, values) == {EmptyDict} \cup {key :> v : v \in values}

FilterParameters ==
    {st @@ et @@ ma @@ mb @@ id :
        st \in Optional("StartTime", Afters),
        et \in Optional("EndTime", Befores),
        ma \in Optional("ModifiedAfter", Afters),
        mb \in Optional("ModifiedBefore", Befores),
        id \in Optional("CallId", {"c1"})}

CallLists == {<<>>, <<[CallId |-> "c1"]>>}

call_get_usercalls ==
    /\ pc = "idle"
    /\ \E filterParameters \in FilterParameters :
        Enter("get_usercalls", [filterParameters |-> filterParameters],
              get_usercalls_begin(filterParameters), "await_calls")

call_get_inbound_queuecalls ==
    /\ pc = "idle"
    /\ \E filterParameters \in FilterParameters :
        Enter("get_inbound_queuecalls", [filterParameters |-> filterParameters],
              get_inbound_queuecalls_begin(filterParameters), "await_calls")

return_get_usercalls ==
    /\ pc = "await_calls"
    /\ op = "get_usercalls"
    /\ \E resp \in HttpResponses(CallLists) :
           Leave(resp, get_usercalls_end(Invoked(resp)))

return_get_inbound_queuecalls ==
    /\ pc = "await_calls"
    /\ op = "get_inbound_queuecalls"
    /\ \E resp \in HttpResponses(CallLists) :
           Leave(resp, get_inbound_queuecalls_end(Invoked(resp)))

NextCalls ==
    \/ call_get_usercalls
    \/ call_get_inbound_queuecalls
    \/ return_get_usercalls
    \/ return_get_inbound_queuecalls
    \/ finish

SpecCalls == Init /\ [][NextCalls]_vars

-----------------------------------------------------------------------------
(* The recording download: Client.get_recording_file *)

RecordingIds == {"r1", "r2"}
Directories == {"/tmp", "out", "."}
Metadata == {[URL |-> "rec/1.mp3"], [URL |-> "rec/2.mp3"], [RecordingId |-> "r1"]}
\* the answers to the audio request: the audio, an error page, or none
AudioResponses ==
    {HttpText(200, "<audio>"), HttpText(404, "<html>"), HttpText(500, "<html>"),
     HttpText(403, "denied"), NetworkError}

\* lines 366-370: the directory is made and the metadata requested
call_get_recording_file ==
    /\ pc = "idle"
    /\ \E recordingId \in RecordingIds, path \in Directories :
        /\ op' = "get_recording_file"
        /\ args' = [recordingId |-> recordingId, path |-> path]
        /\ disk' = [disk EXCEPT !.dirs = @ \cup {path}]
        /\ requests' = <<get_recording_file_begin(recordingId).request>>
        /\ responses' = <<>>
        /\ result' = NoResult
        /\ pc' = "await_metadata"
    /\ UNCHANGED <<classification, session, poller, client>>

\* lines 370-382
metadata_get_recording_file ==
    /\ pc = "await_metadata"
    /\ \E resp \in HttpResponses(Metadata) :
           LET next == get_recording_file_metadata(resp)
           IN  IF IsRaise(next) THEN Abort(resp, next)
               ELSE /\ responses' = Append(responses, resp)
                    /\ requests' = Append(requests, next.request)
                    /\ pc' = "await_audio"
                    /\ UNCHANGED <<op, args, result, client, disk>>
    /\ UNCHANGED <<classification, session, poller>>

\* lines 382-386
audio_get_recording_file ==
    /\ pc = "await_audio"
    /\ \E resp \in AudioResponses :
           LET next == get_recording_file_audio(resp)
           IN  IF IsRaise(next) THEN Abort(resp, next)
               ELSE /\ responses' = Append(responses, resp)
                    /\ disk' = [disk EXCEPT !.files =
                                    Put(@, mp3(args.path, args.recordingId),
                                        next.content)]
                    /\ pc' = "done"
                    /\ result' = ReturnNone
                    /\ UNCHANGED <<op, args, requests, client>>
    /\ UNCHANGED <<classification, session, poller>>

NextRecording ==
    \/ call_get_recording_file
    \/ metadata_get_recording_file
    \/ audio_get_recording_file
    \/ finish

SpecRecording == Init /\ [][NextRecording]_vars

-----------------------------------------------------------------------------
(* Construction of a Client *)

Usernames == {"user"}
SecretKeys == {None, "", "key"}
Passwords == {None, "pw"}

\* the answers of the discovery service, of authuser and of users/me
Discoveries ==
    {<<[apiEndpoint |-> "https://api.test.com/"]>>,
     <<[apiEndpoint |-> "https://api.test.com"]>>,
     <<[domain |-> "test.com"]>>,
     <<>>}
Authentications == {[SecretKey |-> "generated-key"], [UserName |-> "user"]}
Users == {[Id |-> "u1"], [UserName |-> "user"]}

\* __init__, lines 51-52: username is set and discovery requested
call_Client ==
    /\ pc = "idle"
    /\ \E username \in Usernames, secretkey \in SecretKeys, password \in Passwords :
        /\ op' = "Client"
        /\ args' = [username |-> username, secretkey |-> secretkey,
                    password |-> password]
        /\ client' = [username |-> username]
        /\ requests' = <<get_apiurl_begin(username).request>>
        /\ responses' = <<>>
        /\ result' = NoResult
        /\ pc' = "await_discovery"
    /\ UNCHANGED <<classification, session, poller, disk>>

\* __init__, lines 52-66: discovery is answered; the attributes are set and
\* the secret key is taken from the argument or requested with the password
discovered_Client ==
    /\ pc = "await_discovery"
    /\ \E resp \in HttpResponses(Discoveries) :
           LET url == get_apiurl_end(resp)
               chosen == credentials(args.secretkey, args.password)
               fresh == [username |-> client.username, apiEndpoint |-> url.value,
                         userid |-> None, secretkey |-> None]
           IN  IF IsRaise(url) THEN Abort(resp, url)
               ELSE /\ responses' = Append(responses, resp)
                    /\ UNCHANGED <<op, args>>
                    /\ IF IsRaise(chosen)
                       THEN /\ client' = fresh
                            /\ pc' = "done"
                            /\ result' = chosen
                            /\ UNCHANGED requests
                       ELSE IF chosen.kind = "secretkey"
                       THEN /\ client' = [fresh EXCEPT !.secretkey = args.secretkey]
                            /\ requests' = Append(requests, users_me.request)
                            /\ pc' = "await_user"
                            /\ UNCHANGED result
                       ELSE /\ client' = fresh
                            /\ requests' = Append(requests,
                                   authenticate_with_password_begin(
                                       url.value, client.username,
                                       args.password).request)
                            /\ pc' = "await_auth"
                            /\ UNCHANGED result
    /\ UNCHANGED <<classification, session, poller, disk>>

\* __init__, lines 64-66: authuser is answered
authenticated_Client ==
    /\ pc = "await_auth"
    /\ \E resp \in HttpResponses(Authentications) :
           LET secretkey == authenticate_with_password_end(resp)
           IN  IF IsRaise(secretkey) THEN Abort(resp, secretkey)
               ELSE /\ responses' = Append(responses, resp)
                    /\ client' = [client EXCEPT !.secretkey = secretkey.value]
                    /\ requests' = Append(requests, users_me.request)
                    /\ pc' = "await_user"
                    /\ UNCHANGED <<op, args, result>>
    /\ UNCHANGED <<classification, session, poller, disk>>

\* __init__, lines 66-67: users/me is answered
constructed_Client ==
    /\ pc = "await_user"
    /\ \E resp \in HttpResponses(Users) :
           LET userid == init_end(Invoked(resp))
           IN  IF IsRaise(userid) THEN Abort(resp, userid)
               ELSE /\ responses' = Append(responses, resp)
                    /\ client' = [client EXCEPT !.userid = userid.value]
                    /\ pc' = "done"
                    /\ result' = ReturnNone
                    /\ UNCHANGED <<op, args, requests>>
    /\ UNCHANGED <<classification, session, poller, disk>>

NextClient ==
    \/ call_Client
    \/ discovered_Client
    \/ authenticated_Client
    \/ constructed_Client
    \/ finish

SpecClient == Init /\ [][NextClient]_vars

-----------------------------------------------------------------------------
(* The transcript poller: Client.get_transcript *)

TranscriptIds == {"t1", "t2"}
TranscriptStatuses == {"Pending", "Completed", "Failed"}

\* the records the transcript request can return: with a status, or without
Transcripts ==
    {[TranscriptId |-> "t1", TranscriptStatus |-> status] :
        status \in TranscriptStatuses}
        \cup {[TranscriptId |-> "t1", Text |-> "hello"]}

call_get_transcript ==
    /\ pc = "idle"
    /\ \E transcriptId \in TranscriptIds, wait_pending \in BOOLEAN :
        Enter("get_transcript",
              [transcriptId |-> transcriptId, wait_pending |-> wait_pending],
              get_transcript_begin(transcriptId), "await_transcript")

\* a fetch is answered: the call ends, or counts a retry, sleeps and sends the
\* request again (retries is set to 0 when the loop is entered, line 411)
fetched_get_transcript ==
    /\ pc = "await_transcript"
    /\ op = "get_transcript"
    /\ \E resp \in HttpResponses(Transcripts) :
           LET tried == IF Len(responses) = 0 THEN 0 ELSE retries
               next == get_transcript_fetched(args.transcriptId, args.wait_pending,
                                              tried, Invoked(resp))
           IN  IF next.kind = "retry"
               THEN /\ responses' = Append(responses, resp)
                    /\ retries' = tried + 1
                    /\ sleeps' = Append(sleeps, [seconds |-> sleep_seconds,
                                                 after |-> Len(requests)])
                    /\ requests' = Append(requests,
                           get_transcript_begin(args.transcriptId).request)
                    /\ UNCHANGED <<pc, op, args, classification, result, session,
                                   client, disk>>
               ELSE Leave(resp, next)

NextTranscript ==
    \/ call_get_transcript
    \/ fetched_get_transcript
    \/ finish

SpecTranscript == Init /\ [][NextTranscript]_vars

-----------------------------------------------------------------------------
(* The lifetime of a Client: its construction, then calls of its methods *)

\* __init__ ran to its end: userid is set last (line 67)
Constructed == "userid" \in DOMAIN client /\ client.userid # None

\* a Client is constructed where there is none
construct ==
    /\ client = EmptyDict
    /\ call_Client

\* the call or the construction has ended; the instance stays as it is for
\* the next call, and an instance whose construction raised does not exist
returned ==
    /\ pc = "done"
    /\ client' = IF op = "Client" /\ IsRaise(result) THEN EmptyDict ELSE client
    /\ pc' = "idle"
    /\ op' = "none"
    /\ args' = EmptyDict
    /\ requests' = <<>>
    /\ responses' = <<>>
    /\ classification' = EmptyDict
    /\ result' = NoResult
    /\ retries' = 0
    /\ sleeps' = <<>>
    /\ disk' = NoDisk
    /\ UNCHANGED session

NextLifetime ==
    \/ construct
    \/ discovered_Client
    \/ authenticated_Client
    \/ constructed_Client
    \/ call_invoke_api
    \/ return_invoke_api
    \/ call_get_usercalls
    \/ call_get_inbound_queuecalls
    \/ return_get_usercalls
    \/ return_get_inbound_queuecalls
    \/ call_get_recording_file
    \/ metadata_get_recording_file
    \/ audio_get_recording_file
    \/ call_get_transcript
    \/ fetched_get_transcript
    \/ call_find_classifications
    \/ call_get_call_classification
    \/ call_get_call_classification_pretty
    \/ call_get_classification_schema
    \/ call_create_classification
    \/ return_create_classification
    \/ return_find_classifications
    \/ return_get_call_classification
    \/ found_in_session
    \/ return_in_session
    \/ return_get_classification_schema
    \/ returned

SpecLifetime == Init /\ [][NextLifetime]_vars

-----------------------------------------------------------------------------
(* Vocabulary of the properties *)

Pretty == "get_call_classification_pretty"

\* answer i of the running call is a successful JSON answer
Answered(i) ==
    /\ Len(responses) >= i
    /\ responses[i].kind = "http"
    /\ responses[i].json
    /\ ResponseOk(responses[i].status_code)

\* the list the find request returned and its first element
FoundList == responses[1].body
FirstFound == Head(FoundList)
\* the schema the schema request returned
FetchedSchema == responses[2].body

\* get_call_classification_pretty found a classification, fetched a non-empty
\* schema and has ended
Decorated ==
    /\ pc = "done"
    /\ op = Pretty
    /\ Answered(2)
    /\ DOMAIN FetchedSchema # {}

ReturnedValue == result.kind = "return"
HasTagsPretty == ReturnedValue /\ "TagsPretty" \in DOMAIN result.value
TagsPretty == result.value.TagsPretty

SelectionsOf(c) == IF "TagSelections" \in DOMAIN c THEN c.TagSelections ELSE <<>>
GroupsOf(schema) == IF "Groups" \in DOMAIN schema THEN schema.Groups ELSE <<>>
GroupSet(schema) == {GroupsOf(schema)[i] : i \in DOMAIN GroupsOf(schema)}
TagSet(group) == {group.Tags[i] : i \in DOMAIN group.Tags}

\* the identifiers of the tags of a group, of a schema
TagIdsOf(group) == {t.Id : t \in {u \in TagSet(group) : "Id" \in DOMAIN u}}
SchemaTagIds(schema) == UNION {TagIdsOf(g) : g \in GroupSet(schema)}

\* the selection names a tag of the group (the identifier 0 counts as no
\* identifier, as everywhere in the decoration)
ResolvesIn(selection, group) ==
    /\ "TagId" \in DOMAIN selection
    /\ selection.TagId # 0
    /\ selection.TagId \in TagIdsOf(group)

\* the display name of the tag a selection of the group names
DisplayName(selection, group) ==
    (CHOOSE t \in TagSet(group) : "Id" \in DOMAIN t /\ t.Id = selection.TagId).Name

\* the selections of the classification that resolve in the group, in order
ResolvedIn(c, group) ==
    SelectSeq(SelectionsOf(c), LAMBDA sel : ResolvesIn(sel, group))

\* C1: a selection whose TagId is not the Id of any tag of the fetched schema
\* adds no key and no list entry to TagsPretty, and the call returns normally:
\* the result carries the TagsPretty of the classification without those
\* selections, and every key is the name of a group one of whose tags is selected
Unresolved(selection, schema) ==
    "TagId" \notin DOMAIN selection \/ selection.TagId \notin SchemaTagIds(schema)

WithoutUnresolved(c, schema) ==
    SelectSeq(SelectionsOf(c), LAMBDA sel : ~Unresolved(sel, schema))

C1_UnresolvedSelectionsAddNothing ==
    Decorated =>
        /\ HasTagsPretty
        /\ TagsPretty =
               select_tags(EmptyDict, WithoutUnresolved(FirstFound, FetchedSchema),
                           schema_lookup(FetchedSchema)).tags_pretty
        /\ \A name \in DOMAIN TagsPretty :
               \E g \in GroupSet(FetchedSchema) :
                   /\ g.Name = name
                   /\ \E i \in DOMAIN SelectionsOf(FirstFound) :
                          ~Unresolved(SelectionsOf(FirstFound)[i], FetchedSchema)
                          /\ SelectionsOf(FirstFound)[i].TagId \in TagIdsOf(g)

\* a decorated classification that holds an unresolved selection between two
\* resolved ones
C1_Witness ==
    /\ Decorated
    /\ HasTagsPretty
    /\ DOMAIN TagsPretty # {}
    /\ \E i, j, k \in DOMAIN SelectionsOf(FirstFound) :
           /\ i < j /\ j < k
           /\ ~Unresolved(SelectionsOf(FirstFound)[i], FetchedSchema)
           /\ "TagId" \in DOMAIN SelectionsOf(FirstFound)[j]
           /\ Unresolved(SelectionsOf(FirstFound)[j], FetchedSchema)
           /\ ~Unresolved(SelectionsOf(FirstFound)[k], FetchedSchema)

MaxSelectionsOf(group) == group.MaxSelections

\* the groups of the fetched schema in which at least n selections resolve
GroupsSelected(n) ==
    {g \in GroupSet(FetchedSchema) : Len(ResolvedIn(FirstFound, g)) >= n}

\* C2: for a group with MaxSelections = 1 in which two or more selections
\* resolve, TagsPretty[group name] is the display name of the last of them in
\* TagSelections order, and no error is raised
C2_SingleSelectLastWins ==
    Decorated =>
        \A g \in GroupsSelected(2) :
            MaxSelectionsOf(g) = 1 =>
                LET resolved == ResolvedIn(FirstFound, g)
                IN  /\ HasTagsPretty
                    /\ g.Name \in DOMAIN TagsPretty
                    /\ TagsPretty[g.Name] =
                           [str |-> DisplayName(resolved[Len(resolved)], g)]

\* a single-selection group that received two different tags, then a selection
\* of another kind
C2_Witness ==
    /\ Decorated
    /\ HasTagsPretty
    /\ \E g \in GroupsSelected(2) :
           /\ MaxSelectionsOf(g) = 1
           /\ ResolvedIn(FirstFound, g)[1].TagId # ResolvedIn(FirstFound, g)[2].TagId
           /\ ~ResolvesIn(SelectionsOf(FirstFound)[Len(SelectionsOf(FirstFound))], g)

\* C3: for a group with MaxSelections > 1, TagsPretty[group name] is a list
\* with one entry per selection that resolves in the group, duplicates
\* included, in the order of those selections in TagSelections
C3_MultiSelectListInOrder ==
    Decorated =>
        \A g \in GroupsSelected(1) :
            MaxSelectionsOf(g) > 1 =>
                LET resolved == ResolvedIn(FirstFound, g)
                IN  /\ HasTagsPretty
                    /\ g.Name \in DOMAIN TagsPretty
                    /\ TagsPretty[g.Name] =
                           [list |-> [i \in 1 .. Len(resolved) |->
                                          DisplayName(resolved[i], g)]]

\* a multi-selection group selected three times: a tag, another tag with a
\* smaller identifier, the first tag again
C3_Witness ==
    /\ Decorated
    /\ HasTagsPretty
    /\ \E g \in GroupsSelected(3) :
           /\ MaxSelectionsOf(g) > 1
           /\ ResolvedIn(FirstFound, g)[1].TagId > ResolvedIn(FirstFound, g)[2].TagId
           /\ ResolvedIn(FirstFound, g)[1].TagId = ResolvedIn(FirstFound, g)[3].TagId
           /\ Len(TagsPretty[g.Name].list) = 3

\* C4: the keys of TagsPretty are exactly the names of the groups in which at
\* least one selection resolves; the value is a string when the group's
\* MaxSelections is 1 and a list when it is greater than 1, and the
\* decoration never appends to a string (it does not raise)
C4_TagsPrettyShape ==
    Decorated =>
        /\ HasTagsPretty
        /\ DOMAIN TagsPretty = {g.Name : g \in GroupsSelected(1)}
        /\ \A g \in GroupsSelected(1) :
               /\ MaxSelectionsOf(g) = 1 => DOMAIN TagsPretty[g.Name] = {"str"}
               /\ MaxSelectionsOf(g) > 1 => DOMAIN TagsPretty[g.Name] = {"list"}

\* a result with a string under one group and a list under another, while a
\* third selection resolves nowhere
C4_Witness ==
    /\ Decorated
    /\ HasTagsPretty
    /\ \E g, h \in GroupsSelected(1) :
           /\ DOMAIN TagsPretty[g.Name] = {"str"}
           /\ DOMAIN TagsPretty[h.Name] = {"list"}
    /\ \E i \in DOMAIN SelectionsOf(FirstFound) :
           \A g \in GroupSet(FetchedSchema) :
               ~ResolvesIn(SelectionsOf(FirstFound)[i], g)

FindPath == "/classification/instance/"
SchemaPath(schema_id) == "/classification/schemas/" \o schema_id

\* the running call issued the find request and nothing else
OnlyFindRequested == Len(requests) = 1 /\ requests[1].path = FindPath

RaisedValueError ==
    /\ pc = "done"
    /\ result.kind = "raise"
    /\ result.exc = "ValueError"

\* C5: with a non-empty call id, get_call_classification_pretty and
\* get_call_classification return None, raise nothing and make no schema
\* request whenever the find request returns an empty list
C5_NoneWhenNothingFound ==
    (/\ op \in {Pretty, "get_call_classification"}
     /\ Truthy(args.call_id)
     /\ Answered(1)
     /\ FoundList = <<>>)
        => /\ pc = "done"
           /\ result.kind = "return_none"
           /\ OnlyFindRequested

C5_Witness ==
    /\ op = Pretty
    /\ pc = "done"
    /\ Answered(1)
    /\ FoundList = <<>>

C7_DecorationAddsOnlyTagsPretty ==
    (Decorated /\ ReturnedValue) =>
        /\ DOMAIN result.value = DOMAIN FirstFound \cup {"TagsPretty"}
        /\ \A k \in DOMAIN FirstFound : result.value[k] = FirstFound[k]

\* a decorated result whose TagSelections still hold an unresolved selection
C7_Witness ==
    /\ Decorated
    /\ HasTagsPretty
    /\ DOMAIN TagsPretty # {}
    /\ \E i \in DOMAIN SelectionsOf(FirstFound) :
           Unresolved(SelectionsOf(FirstFound)[i], FetchedSchema)
    /\ Len(result.value.TagSelections) = 3

\* C8: get_call_classification and get_call_classification_pretty with an
\* empty call id, and get_classification_schema with an empty schema id, raise
\* ValueError before any API request is issued
C8_EmptyIdRaisesBeforeRequest ==
    /\ (op \in {Pretty, "get_call_classification"} /\ ~Truthy(args.call_id))
           => RaisedValueError /\ requests = <<>>
    /\ (op = "get_classification_schema" /\ ~Truthy(args.schema_id))
           => RaisedValueError /\ requests = <<>>

C8_Witness ==
    /\ op = "get_classification_schema"
    /\ args.schema_id = ""
    /\ pc = "done"

\* C9: find_classifications raises ValueError and issues no request when
\* neither identifier is given (both are None or empty); otherwise it issues
\* exactly one GET whose params hold CallId iff call_id was given and
\* CallbackListItemId iff callback_list_item_id was given
C9_FindValidationAndParams ==
    op = "find_classifications" =>
        IF ~Truthy(args.call_id) /\ ~Truthy(args.callback_list_item_id)
        THEN RaisedValueError /\ requests = <<>>
        ELSE /\ Len(requests) = 1
             /\ requests[1].method = "GET"
             /\ requests[1].path = FindPath
             /\ DOMAIN requests[1].params =
                    {k \in {"CallId"} : Truthy(args.call_id)}
                        \cup {k \in {"CallbackListItemId"} :
                                  Truthy(args.callback_list_item_id)}
             /\ Truthy(args.call_id) => requests[1].params.CallId = args.call_id
             /\ Truthy(args.callback_list_item_id) =>
                    requests[1].params.CallbackListItemId =
                        args.callback_list_item_id

\* find_classifications was called with both identifiers and has returned
C9_Witness ==
    /\ op = "find_classifications"
    /\ pc = "done"
    /\ Truthy(args.call_id)
    /\ Truthy(args.callback_list_item_id)
    /\ Len(requests) = 1

\* C10: when the find request returns one or more classifications,
\* get_call_classification returns the first element of the list, and
\* get_call_classification_pretty works on that element and no other: it
\* fetches the schema of the first element and returns its fields
C10_FirstMatchTaken ==
    /\ (op = "get_call_classification" /\ Answered(1) /\ FoundList # <<>>)
           => /\ pc = "done"
              /\ ReturnedValue
              /\ result.value = FirstFound
    /\ (op = Pretty /\ Answered(1) /\ FoundList # <<>>)
           => /\ pc = "await_schema" =>
                     /\ classification = FirstFound
                     /\ Len(requests) = 2
                     /\ requests[2].path = SchemaPath(FirstFound.TagSchemaId)
              /\ (pc = "done" /\ ~IsRaise(result)) =>
                     /\ ReturnedValue
                     /\ \A k \in DOMAIN FirstFound :
                            /\ k \in DOMAIN result.value
                            /\ result.value[k] = FirstFound[k]

\* two classifications were found and the first one was decorated
C10_Witness ==
    /\ Decorated
    /\ HasTagsPretty
    /\ Len(FoundList) = 2
    /\ FoundList[1] # FoundList[2]
    /\ DOMAIN TagsPretty # {}

\* C11: if the schema fetch of get_call_classification_pretty fails, the call
\* raises that same failure (the exception invoke_api raised for the schema
\* request, with its status code) and returns no classification
C11_SchemaFailurePropagates ==
    (op = Pretty /\ Len(responses) = 2 /\ ~Answered(2)) =>
        /\ pc = "done"
        /\ IsRaise(result)
        /\ result = invoke_api(requests[2].path, requests[2].method, responses[2])
        /\ result.exc \in {"EnreachAPIException", "AuthenticationException",
                           "RateLimitException"}
        /\ responses[2].kind = "http" =>
               result.status_code = responses[2].status_code

\* the schema request of a classification with selections was answered 429
C11_Witness ==
    /\ op = Pretty
    /\ pc = "done"
    /\ Len(responses) = 2
    /\ responses[2].kind = "http"
    /\ responses[2].status_code = 429
    /\ Len(SelectionsOf(classification)) > 0

\* the requests of the finished calls of the session that went to a path
SentTo(path) == SelectSeq(session.sent, LAMBDA r : r.path = path)

\* C12: every get_call_classification_pretty call that finds a classification
\* with a schema id issues, after its find request, exactly one schema request
\* for that id with IncludeChildren = true, whatever the earlier calls of the
\* session fetched; over a session the n calls that passed validation issued n
\* find requests, the m of them that found such a classification m schema
\* requests, and the result of a call is the one its own two answers determine
C12_SchemaFetchedOnEveryCall ==
    /\ (op = Pretty /\ FoundWithSchemaId) =>
           /\ Len(requests) = 2
           /\ requests[1].path = FindPath
           /\ requests[2] =
                  [method |-> "GET",
                   path |-> SchemaPath(FirstFound.TagSchemaId),
                   params |-> [IncludeChildren |-> TRUE]]
           /\ pc = "done" =>
                  /\ Len(responses) = 2
                  /\ result = get_call_classification_pretty_end(
                                  FirstFound,
                                  invoke_api(requests[2].path, requests[2].method,
                                             responses[2]))
    /\ Len(SentTo(FindPath)) = session.calls
    /\ Len(SentTo(SchemaPath("s1"))) = session.found
    /\ Len(session.sent) = session.calls + session.found

\* the third call of a session ends decorated with a schema that differs from
\* the one the second call fetched for the same schema id
C12_Witness ==
    /\ Decorated
    /\ HasTagsPretty
    /\ session.calls = 2
    /\ session.found = 2
    /\ Len(session.fetched) = 2
    /\ session.fetched[2] # FetchedSchema
    /\ DOMAIN session.fetched[2] # {}
    /\ DOMAIN TagsPretty = {"G2"}

Transcript == "get_transcript"

\* check i of the running get_transcript call was answered with a record that
\* reports a status
Reported(i) == Answered(i) /\ "TranscriptStatus" \in DOMAIN responses[i].body
ReportedPending(i) == Reported(i) /\ responses[i].body.TranscriptStatus = "Pending"
ReportedOther(i) == Reported(i) /\ responses[i].body.TranscriptStatus # "Pending"

\* C13: when wait_pending is false (whatever status the fetch reports, Pending
\* included) or the first reported status is not Pending (whichever it is),
\* get_transcript has performed exactly one fetch and no sleep and has
\* returned the fetched record
C13_SingleFetchWithoutPolling ==
    (op = Transcript /\ Reported(1) /\ (~args.wait_pending \/ ReportedOther(1))) =>
        /\ pc = "done"
        /\ Len(requests) = 1
        /\ Len(responses) = 1
        /\ sleeps = <<>>
        /\ result = Return(responses[1].body)

\* a Pending record returned at once because wait_pending is false
C13_Witness ==
    /\ op = Transcript
    /\ pc = "done"
    /\ ~args.wait_pending
    /\ ReportedPending(1)
    /\ result.kind = "return"
    /\ result.value.TranscriptStatus = "Pending"

\* C14: with wait_pending true, after k checks that all reported Pending (k
\* within the retry budget) the call has slept k times and sent fetch k + 1,
\* sleep i lying between fetch i and fetch i + 1; when check k + 1 reports
\* another status the call returns the record of that check after exactly k
\* sleeps and k + 1 fetches
C14_PollsUntilNotPending ==
    (op = Transcript /\ args.wait_pending /\ Len(responses) >= 1) =>
        LET n == Len(responses)
        IN  /\ \A i \in 1 .. n - 1 : ReportedPending(i)
            /\ n - 1 <= max_retries
            /\ (ReportedPending(n) /\ n <= max_retries) =>
                   /\ pc = "await_transcript"
                   /\ Len(requests) = n + 1
                   /\ Len(sleeps) = n
                   /\ retries = n
            /\ ReportedOther(n) =>
                   /\ pc = "done"
                   /\ result = Return(responses[n].body)
                   /\ Len(requests) = n
                   /\ Len(sleeps) = n - 1
            /\ \A i \in DOMAIN sleeps :
                   sleeps[i] = [seconds |-> sleep_seconds, after |-> i]
            /\ \A i \in DOMAIN requests : requests[i] = requests[1]

\* Pending, Pending, Completed: the Completed record after exactly 2 sleeps
C14_Witness ==
    /\ op = Transcript
    /\ pc = "done"
    /\ args.wait_pending
    /\ Len(responses) = 3
    /\ ReportedPending(1)
    /\ ReportedPending(2)
    /\ result.kind = "return"
    /\ result.value.TranscriptStatus = "Completed"
    /\ Len(sleeps) = 2

\* every check of the running call so far reported Pending
AllPending == \A i \in DOMAIN responses : ReportedPending(i)

\* the call has ended with the error of the exhausted retry budget
BudgetExhausted ==
    /\ pc = "done"
    /\ IsRaise(result)
    /\ result.message = StillPending(args.transcriptId).message

\* C15 as stated: with wait_pending true, Pending on max_retries = 10
\* consecutive checks makes the call raise where an 11th check would be made,
\* no 11th fetch being performed
C15_RaisesAfterTenChecks ==
    (op = Transcript /\ args.wait_pending /\ Len(responses) >= max_retries
        /\ \A i \in 1 .. max_retries : ReportedPending(i)) =>
        /\ BudgetExhausted
        /\ Len(requests) = max_retries

\* C15 as amended: with wait_pending true the budget is 10 retries after the
\* first check, so the call raises on Pending reported by 11 consecutive
\* checks, where a 12th check would be made: 11 fetches and 10 sleeps were
\* performed and no 12th fetch; with fewer Pending checks it is still polling,
\* and the error is raised in no other case
C15_RaisesAfterElevenChecks ==
    /\ (op = Transcript /\ args.wait_pending /\ Len(responses) >= 1 /\ AllPending) =>
           IF Len(responses) = max_retries + 1
           THEN /\ BudgetExhausted
                /\ Len(requests) = max_retries + 1
                /\ Len(sleeps) = max_retries
                /\ retries = max_retries
           ELSE /\ Len(responses) <= max_retries
                /\ pc = "await_transcript"
    /\ (op = Transcript /\ BudgetExhausted) =>
           /\ args.wait_pending
           /\ AllPending
           /\ Len(responses) = max_retries + 1

\* the budget is exhausted after the 11th Pending check
C15_Witness ==
    /\ op = Transcript
    /\ BudgetExhausted
    /\ Len(responses) = max_retries + 1
    /\ ReportedPending(max_retries + 1)
    /\ Len(sleeps) = max_retries

\* the kinds of error a failed fetch of the running call can raise
FetchFailureKinds ==
    {invoke_api(requests[1].path, requests[1].method, resp).exc :
        resp \in {r \in HttpResponses(Transcripts) :
                     IsRaise(invoke_api(requests[1].path, requests[1].method, r))}}

\* C16: the error raised when the retry budget is exhausted is of a kind of
\* its own: no failed fetch raises an error of that kind
C16_TimeoutKindDistinct ==
    (op = Transcript /\ BudgetExhausted) => result.exc \notin FetchFailureKinds

Create == "create_classification"

\* the payload of the request create_classification sent
Payload == requests[1].payload

\* C17: the payload of create_classification holds exactly one of CallId and
\* CallListItemId: CallListItemId exactly when classified_type is CallListItem,
\* CallId for every other type, known or not; its value is call_id, and
\* ClassifiedType, TagSchemaId and TagSelections are the arguments unchanged
C17_PayloadIdField ==
    (op = Create /\ Len(requests) >= 1) =>
        /\ Len(requests) = 1
        /\ requests[1].method = "POST"
        /\ requests[1].path = "/classification/instance"
        /\ Cardinality(DOMAIN Payload \cap {"CallId", "CallListItemId"}) = 1
        /\ "CallListItemId" \in DOMAIN Payload <=>
               args.classified_type = "CallListItem"
        /\ "CallId" \in DOMAIN Payload <=> args.classified_type # "CallListItem"
        /\ \A k \in DOMAIN Payload \cap {"CallId", "CallListItemId"} :
               Payload[k] = args.call_id
        /\ Payload.ClassifiedType = args.classified_type
        /\ Payload.TagSchemaId = args.schema_id
        /\ Payload.TagSelections = args.tag_selections

\* a classification of a type the client does not know was sent with a CallId
C17_Witness ==
    /\ op = Create
    /\ pc = "done"
    /\ result.kind = "return"
    /\ args.classified_type = "Chat"
    /\ "CallId" \in DOMAIN Payload
    /\ Len(Payload.TagSelections) = 2

\* C18: create_classification raises ValueError and sends no request when
\* call_id is empty, when schema_id is empty or when tag_selections is empty;
\* the checks are made in that order, so the error is that of the first
\* failing check, and with all three given a request is sent
C18_CreateValidationOrder ==
    op = Create =>
        IF ~Truthy(args.call_id)
        THEN RaisedValueError /\ requests = <<>>
                 /\ result.message = "call_id is required"
        ELSE IF ~Truthy(args.schema_id)
        THEN RaisedValueError /\ requests = <<>>
                 /\ result.message = "schema_id is required"
        ELSE IF args.tag_selections = <<>>
        THEN RaisedValueError /\ requests = <<>>
                 /\ result.message = "tag_selections cannot be empty"
        ELSE Len(requests) = 1

\* all three arguments are empty and the error names call_id
C18_Witness ==
    /\ op = Create
    /\ args.call_id = ""
    /\ args.schema_id = ""
    /\ args.tag_selections = <<>>
    /\ RaisedValueError
    /\ result.message = "call_id is required"

InvokeApi == "invoke_api"

\* EnreachAPIException and its subclasses (exceptions.py)
EnreachAPIExceptions ==
    {"EnreachAPIException", "AuthenticationException", "RateLimitException"}

\* the class of error the claim assigns to a status that is no success
ErrorOfStatus(status_code) ==
    IF status_code = 401 THEN "AuthenticationException"
    ELSE IF status_code = 429 THEN "RateLimitException"
    ELSE "EnreachAPIException"

\* the body of an answer, parsed or raw
BodyOf(resp) == IF resp.json THEN resp.body ELSE resp.text

\* invoke_api sent its request and the request was answered
InvokeAnswered ==
    op = InvokeApi /\ Len(responses) = 1 /\ responses[1].kind = "http"

\* C19 as stated: invoke_api maps every answer by its status: 401 raises
\* AuthenticationException, 429 RateLimitException, 404 and every other status
\* that is no success EnreachAPIException, each with the status code and the
\* body; a success status returns the parsed body
C19_StatusDecidesOutcome ==
    InvokeAnswered =>
        LET resp == responses[1]
        IN  IF ResponseOk(resp.status_code)
            THEN IsRaise(result) \/ result = Return(resp.body)
            ELSE /\ IsRaise(result)
                 /\ result.exc = ErrorOfStatus(resp.status_code)
                 /\ result.status_code = resp.status_code
                 /\ result.response = BodyOf(resp)

\* C19 as amended: for an answer whose body is valid JSON, 401 raises
\* AuthenticationException, 429 RateLimitException, 404 and every other status
\* that is no success (400 and above) EnreachAPIException, each with the
\* status code and the parsed body, and a success status returns the parsed
\* body; an answer whose body is not JSON raises EnreachAPIException with the
\* status code and the raw text whatever the status; a request that gets no
\* answer raises EnreachAPIException; so every failure of a request that was
\* sent is an EnreachAPIException or a subclass and only a success status
\* returns
C19_StatusDecidesOutcomeOfJson ==
    (op = InvokeApi /\ Len(responses) = 1) =>
        LET resp == responses[1]
        IN  /\ pc = "done"
            /\ IsRaise(result) => result.exc \in EnreachAPIExceptions
            /\ result.kind \in {"raise", "return"}
            /\ resp.kind = "network_error" => IsRaise(result)
            /\ (resp.kind = "http" /\ resp.json) =>
                   IF ResponseOk(resp.status_code)
                   THEN result = Return(resp.body)
                   ELSE /\ IsRaise(result)
                        /\ result.exc = ErrorOfStatus(resp.status_code)
                        /\ result.status_code = resp.status_code
                        /\ result.response = resp.body
            /\ (resp.kind = "http" /\ ~resp.json) =>
                   /\ IsRaise(result)
                   /\ result.exc = "EnreachAPIException"
                   /\ result.status_code = resp.status_code
                   /\ result.response = resp.text
            /\ result.kind = "return" =>
                   resp.kind = "http" /\ ResponseOk(resp.status_code)

\* a 429 answer with a JSON body raised RateLimitException with that body
C19_Witness ==
    /\ InvokeAnswered
    /\ pc = "done"
    /\ responses[1].status_code = 429
    /\ responses[1].json
    /\ IsRaise(result)
    /\ result.exc = "RateLimitException"
    /\ result.response = ErrorBody

Construct == "Client"

\* the discovery request of the construction was answered with an endpoint
Discovered ==
    op = Construct /\ Len(responses) >= 1
        /\ get_apiurl_end(responses[1]).kind = "return"

\* the requests of the construction that ask authuser for a secret key
AuthRequests ==
    {i \in DOMAIN requests : "payload" \in DOMAIN requests[i]}

\* self.secretkey, None as long as the attribute is not set
StoredSecretKey == Get(client, "secretkey", None)

\* what C20 says of a construction, from the answer to discovery on
CredentialsRule ==
    IF args.secretkey = None /\ args.password = None
    THEN RaisedValueError /\ Len(requests) = 1
    ELSE IF args.secretkey # None
    THEN StoredSecretKey = args.secretkey /\ AuthRequests = {}
    ELSE /\ AuthRequests = {2}
         /\ requests[2].payload.Password = args.password
         /\ StoredSecretKey # None =>
                /\ Answered(2)
                /\ StoredSecretKey = responses[2].body.SecretKey
         /\ Len(requests) = 3 => StoredSecretKey # None

CallQueries == {"get_usercalls", "get_inbound_queuecalls"}

\* the keys of the filters the running call query was given
FilterKeys == DOMAIN args.filterParameters

\* the filters the claim lets through
FiltersSuffice ==
    \/ {"StartTime", "EndTime"} \subseteq FilterKeys
    \/ {"ModifiedAfter", "ModifiedBefore"} \subseteq FilterKeys
    \/ op = "get_usercalls" /\ "CallId" \in FilterKeys

\* C21: get_usercalls issues a request only if the filters hold StartTime and
\* EndTime, or ModifiedAfter and ModifiedBefore, or CallId;
\* get_inbound_queuecalls only if they hold one of the two time pairs; in
\* every other case ValueError is raised and no request is made
C21_FiltersRequired ==
    op \in CallQueries =>
        /\ Len(requests) >= 1 => FiltersSuffice
        /\ ~FiltersSuffice =>
               /\ RaisedValueError
               /\ result = MissingTimes
               /\ requests = <<>>
        /\ Len(requests) <= 1

\* a CallId and half of each pair: get_inbound_queuecalls raises ValueError
C21_Witness ==
    /\ op = "get_inbound_queuecalls"
    /\ FilterKeys = {"CallId", "StartTime", "ModifiedBefore"}
    /\ RaisedValueError
    /\ requests = <<>>

\* the pair of times the running call query examines, and the length of the
\* range between them in hours
ExaminedPair ==
    IF {"StartTime", "EndTime"} \subseteq FilterKeys
    THEN <<"StartTime", "EndTime">>
    ELSE <<"ModifiedAfter", "ModifiedBefore">>
HasRange ==
    \/ {"StartTime", "EndTime"} \subseteq FilterKeys
    \/ {"ModifiedAfter", "ModifiedBefore"} \subseteq FilterKeys
RangeHours ==
    utc(args.filterParameters[ExaminedPair[2]])
        - utc(args.filterParameters[ExaminedPair[1]])

\* C22: get_usercalls and get_inbound_queuecalls raise ValueError and issue no
\* request whenever the requested time range is more than 31 days, and accept
\* a range of 31 days or less
C22_RangeAtMost31Days ==
    (op \in CallQueries /\ HasRange) =>
        IF RangeHours > max_days * HoursPerDay
        THEN RaisedValueError /\ requests = <<>>
        ELSE Len(requests) = 1

Recording == "get_recording_file"

\* the metadata request, the audio request of the running download failed
MetadataFailed ==
    /\ Len(responses) >= 1
    /\ ~(Answered(1) /\ responses[1].status_code = 200
             /\ "URL" \in DOMAIN responses[1].body)
AudioFailed ==
    /\ Len(responses) >= 2
    /\ ~(responses[2].kind = "http" /\ responses[2].status_code = 200)

\* C23: get_recording_file raises EnreachAPIException whenever the download
\* fails, and writes the <recordingId>.mp3 file only after a successful
\* download: after a failed metadata request or a failed audio request no
\* file has been written
C23_FileOnlyAfterDownload ==
    op = Recording =>
        /\ (MetadataFailed \/ AudioFailed) =>
               /\ pc = "done"
               /\ IsRaise(result)
               /\ result.exc = "EnreachAPIException"
               /\ DOMAIN disk.files = {}
        /\ DOMAIN disk.files # {} =>
               /\ DOMAIN disk.files = {mp3(args.path, args.recordingId)}
               /\ ~MetadataFailed
               /\ ~AudioFailed

\* what invoke_api made of answer i of the running call
Answer(i) == invoke_api(requests[i].path, requests[i].method, responses[i])

\* the outcome the arguments and the answers of the running call determine by
\* themselves, for a call of a method that has ended
OwnOutcome ==
    CASE op = "invoke_api" ->
             IF requests = <<>>
             THEN invoke_api_begin(args.path, args.method, None)
             ELSE Answer(1)
      [] op = "get_usercalls" ->
             IF requests = <<>> THEN get_usercalls_begin(args.filterParameters)
             ELSE get_usercalls_end(Answer(1))
      [] op = "get_inbound_queuecalls" ->
             IF requests = <<>>
             THEN get_inbound_queuecalls_begin(args.filterParameters)
             ELSE get_inbound_queuecalls_end(Answer(1))
      [] op = "get_recording_file" ->
             IF Len(responses) = 1 THEN get_recording_file_metadata(responses[1])
             ELSE IF IsRaise(get_recording_file_audio(responses[2]))
             THEN get_recording_file_audio(responses[2])
             ELSE ReturnNone
      [] op = "get_transcript" ->
             get_transcript_fetched(args.transcriptId, args.wait_pending,
                                    Len(responses) - 1, Answer(Len(responses)))
      [] op = "find_classifications" ->
             IF requests = <<>>
             THEN find_classifications_begin(args.call_id,
                                             args.callback_list_item_id)
             ELSE find_classifications_end(Answer(1))
      [] op = "get_call_classification" ->
             IF requests = <<>> THEN get_call_classification_begin(args.call_id)
             ELSE get_call_classification_end(Answer(1))
      [] op = "get_call_classification_pretty" ->
             IF requests = <<>>
             THEN get_call_classification_pretty_begin(args.call_id)
             ELSE IF Len(requests) = 1
             THEN get_call_classification_pretty_found(Answer(1))
             ELSE get_call_classification_pretty_end(
                      get_call_classification_end(Answer(1)).value, Answer(2))
      [] op = "get_classification_schema" ->
             IF requests = <<>>
             THEN get_classification_schema_begin(args.schema_id,
                                                  args.include_children)
             ELSE get_classification_schema_end(Answer(1))
      [] op = "create_classification" ->
             IF requests = <<>>
             THEN create_classification_begin(args.call_id, args.schema_id,
                      args.tag_selections, args.note, args.classified_type)
             ELSE create_classification_end(Answer(1))
      [] OTHER -> result

\* C24: once a Client is constructed, no step of a call of invoke_api,
\* get_usercalls, get_inbound_queuecalls, get_recording_file, get_transcript
\* or a classification method, succeeding or failing, changes its username,
\* secretkey, apiEndpoint or userid; and the outcome of every call is the one
\* its own arguments and answers determine, whatever calls came before
C24_ClientImmutable ==
    /\ [](pc = "done" => result = OwnOutcome)
    /\ [][Constructed => /\ Constructed'
                         /\ client'.username = client.username
                         /\ client'.secretkey = client.secretkey
                         /\ client'.apiEndpoint = client.apiEndpoint
                         /\ client'.userid = client.userid]_vars

\* a call on a Client constructed with a password was rejected by the service
C24_Witness ==
    /\ Constructed
    /\ client.secretkey = "generated-key"
    /\ op = "get_transcript"
    /\ pc = "done"
    /\ IsRaise(result)
    /\ result.exc = "AuthenticationException"

\* the running get_transcript call has entered its poll loop
InPollLoop == op = Transcript /\ args.wait_pending /\ ReportedPending(1)

\* the last fetch of the running call
LastFetch == Len(responses)

\* C25 as stated: once get_transcript has entered its poll loop (wait_pending
\* true, first status Pending) the loop has ended only with the retry budget
\* exhausted or on a fetch that reported a status other than Pending, never
\* on the failure of an intermediate fetch
C25_LoopEndsInTwoWays ==
    (InPollLoop /\ pc = "done") => (BudgetExhausted \/ ReportedOther(LastFetch))

\* C25 as amended: once get_transcript has entered its poll loop it ends in
\* three ways only: the retry budget is exhausted, a fetch reports a status
\* other than Pending and its record is returned, or a fetch fails (invoke_api
\* raises, or the record holds no TranscriptStatus) and its error is raised at
\* once; a Pending report within the budget never ends it
C25_LoopEndsInThreeWays ==
    InPollLoop =>
        /\ pc = "done" =>
               \/ BudgetExhausted /\ AllPending
               \/ ReportedOther(LastFetch)
                      /\ result = Return(responses[LastFetch].body)
               \/ ~Reported(LastFetch) /\ IsRaise(result) /\ ~BudgetExhausted
        /\ ~Reported(LastFetch) =>
               /\ pc = "done"
               /\ result = get_transcript_fetched(args.transcriptId, TRUE,
                                                  LastFetch - 1, Answer(LastFetch))
        /\ (ReportedPending(LastFetch) /\ LastFetch <= max_retries) =>
               pc = "await_transcript"

\* the third check, after two Pending ones, is answered with status 500: the
\* loop ends with the error of that fetch
C25_Witness ==
    /\ InPollLoop
    /\ pc = "done"
    /\ LastFetch = 3
    /\ ReportedPending(2)
    /\ responses[3] = Http(500, ErrorBody)
    /\ IsRaise(result)
    /\ result.exc = "EnreachAPIException"
    /\ ~BudgetExhausted

\* the fetches of the running get_transcript call are bounded: at most
\* max_retries + 1 fetches and max_retries sleeps, one sleep before every
\* fetch but the first, and a retry counter within the budget
TranscriptBounded ==
    op = Transcript =>
        /\ Len(requests) <= max_retries + 1
        /\ Len(sleeps) <= max_retries
        /\ Len(sleeps) = Len(requests) - 1
        /\ retries <= max_retries
        /\ retries = Len(sleeps)

\* the running get_transcript call ended by returning the record of its last
\* fetch or by raising
TranscriptEnded ==
    (op = Transcript /\ pc = "done") =>
        /\ Len(responses) = Len(requests)
        /\ \/ IsRaise(result)
           \/ /\ Answered(LastFetch)
              /\ result = Return(responses[LastFetch].body)

\* every answer to a fetch ends the call or uses up one retry of the budget
TranscriptProgress ==
    (op = Transcript /\ pc = "await_transcript" /\ responses' # responses) =>
        \/ pc' = "done"
        \/ /\ retries' = retries + 1
           /\ Len(sleeps') = Len(sleeps) + 1
           /\ Len(requests') = Len(requests) + 1

\* C26: get_transcript always terminates: every execution performs at most 11
\* fetches and at most 10 sleeps, the sleeps being one fewer than the fetches
\* (the sleep and the fetch that follows it taken as one step), the retry
\* counter never exceeds 10 and grows with every fetch that does not end the
\* call, and the call ends by returning the record of its last fetch or by
\* raising
C26_TranscriptTerminates ==
    /\ [](TranscriptBounded /\ TranscriptEnded)
    /\ [][TranscriptProgress]_vars

\* the 11th fetch, after 10 sleeps, reports Completed and its record is returned
C26_Witness ==
    /\ op = Transcript
    /\ pc = "done"
    /\ Len(requests) = max_retries + 1
    /\ Len(sleeps) = max_retries
    /\ retries = max_retries
    /\ result.kind = "return"
    /\ result.value.TranscriptStatus = "Completed"

\* the request of invoke_api was answered with a body that is not valid JSON
AnsweredNotJson == InvokeAnswered /\ ~responses[1].json

\* C27: invoke_api examines the body of an answer before its status: a body
\* that is not valid JSON raises the base EnreachAPIException, with the message
\* of the invalid JSON, the status code and the raw text, whatever the status,
\* 401, 429 and the success statuses included
C27_JsonBeforeStatus ==
    AnsweredNotJson =>
        /\ pc = "done"
        /\ result = RaiseApi("EnreachAPIException", "API returned invalid JSON",
                             responses[1].status_code, responses[1].text)
        /\ result.exc \notin {"AuthenticationException", "RateLimitException"}

\* status 429 with a body that is not JSON raised the base exception
C27_Witness ==
    /\ AnsweredNotJson
    /\ pc = "done"
    /\ responses[1].status_code = 429
    /\ IsRaise(result)
    /\ result.exc = "EnreachAPIException"
    /\ result.response = "<html>"

\* the names TagsPretty shows: its strings and the elements of its lists
ShownNames ==
    UNION {IF "str" \in DOMAIN TagsPretty[name]
           THEN {TagsPretty[name].str}
           ELSE {TagsPretty[name].list[i] : i \in DOMAIN TagsPretty[name].list} :
           name \in DOMAIN TagsPretty}

\* the selections of a classification whose TagId is not 0
NonZeroSelections(c) ==
    SelectSeq(SelectionsOf(c),
              LAMBDA sel : ~("TagId" \in DOMAIN sel /\ sel.TagId = 0))

\* the schema defines a tag with Id 0, the classification selects TagId 0
DefinesTagZero(schema) == 0 \in SchemaTagIds(schema)
SelectsTagZero(c) ==
    \E i \in DOMAIN SelectionsOf(c) :
        "TagId" \in DOMAIN SelectionsOf(c)[i] /\ SelectionsOf(c)[i].TagId = 0

\* C28: in get_call_classification_pretty the tag identifier 0 is treated like
\* a missing identifier: a schema tag whose Id is 0 is not entered in the
\* lookup, and a selection whose TagId is 0 contributes nothing to TagsPretty
\* (TagsPretty is that of the classification without those selections and
\* never shows the name of tag 0), even when the schema defines a tag with Id 0
C28_TagZeroIgnored ==
    Decorated =>
        /\ 0 \notin DOMAIN schema_lookup(FetchedSchema).tag_map
        /\ HasTagsPretty
        /\ TagsPretty =
               select_tags(EmptyDict, NonZeroSelections(FirstFound),
                           schema_lookup(FetchedSchema)).tags_pretty
        /\ TagOf(0).Name \notin ShownNames
        /\ \A g \in GroupSet(FetchedSchema) :
               (\A i \in DOMAIN SelectionsOf(FirstFound) :
                    ~ResolvesIn(SelectionsOf(FirstFound)[i], g))
                   => g.Name \notin DOMAIN TagsPretty

\* the schema defines tag 0 in a group of its own, and the classification
\* selects tag 0 and a tag of the other group: only the latter is shown
C28_Witness ==
    /\ Decorated
    /\ HasTagsPretty
    /\ DefinesTagZero(FetchedSchema)
    /\ SelectsTagZero(FirstFound)
    /\ TagIdsOf(GroupsOf(FetchedSchema)[1]) = {0}
    /\ DOMAIN TagsPretty = {"G2"}

\* the find request of the running call returned at least one classification
FoundOne == Answered(1) /\ FoundList # <<>>

\* the classification found has a non-empty TagSchemaId
FoundSchemaId == FoundOne /\ Truthy(Get(FirstFound, "TagSchemaId", None))

\* the schema request returned a schema that is empty, that is not
FetchedEmpty == Answered(2) /\ DOMAIN FetchedSchema = {}
FetchedNonEmpty == Answered(2) /\ DOMAIN FetchedSchema # {}

RequestKind(request) ==
    IF "payload" \in DOMAIN request THEN "authuser"
    ELSE IF request = users_me.request THEN "users/me"
    ELSE IF request = get_apiurl_begin(args.username).request THEN "discovery"
    ELSE "other"

\* the order of the requests of a construction with the running arguments
ConstructionOrder ==
    IF args.secretkey # None THEN <<"discovery", "users/me">>
    ELSE <<"discovery", "authuser", "users/me">>

\* what the construction made of answer i, by the kind of request i
StepOutcome(i) ==
    IF RequestKind(requests[i]) = "discovery" THEN get_apiurl_end(responses[i])
    ELSE IF RequestKind(requests[i]) = "authuser"
    THEN authenticate_with_password_end(responses[i])
    ELSE init_end(Answer(i))

=============================================================================
